---- MODULE Spec2Model ----
(***************************************************************************)
(* Model of the enrichment pipeline of netlify/functions/autofill.js:      *)
(* the handler (validation, fan-out to the Wikipedia / Wikidata lookups    *)
(* and the OpenAI call, extraction, merge, normalisation) as a state       *)
(* machine over one invocation.                                            *)
(*                                                                         *)
(* Strings are sequences of one-character strings.  A JSON value is a      *)
(* record [k, s, n, a]: k the kind, s the characters of a string, n the    *)
(* value of a number, a the elements (JSON values that are not arrays) of  *)
(* an array.  A JSON object is a function from field names to JSON values. *)
(***************************************************************************)
EXTENDS Integers, Sequences, FiniteSets

\* ------------------------------------------------------------------------
\* Characters and string helpers (JavaScript String methods used by the code)
\* ------------------------------------------------------------------------

LowerLetters == <<"a","b","c","d","e","f","g","h","i","j","k","l","m","n","o","p","q","r","s","t","u","v","w","x","y","z">>

UpperLetters == <<"A","B","C","D","E","F","G","H","I","J","K","L","M","N","O","P","Q","R","S","T","U","V","W","X","Y","Z">>

DigitChars == <<"0","1","2","3","4","5","6","7","8","9">>

Range(f) == { f[i] : i \in DOMAIN f }

\* [a-z0-9]
LowerAlnum == Range(LowerLetters) \cup Range(DigitChars)

\* \s of the regular expressions and of String.prototype.trim
IsSpace(c) == c \in {" ", "\t"}

\* String.prototype.toLowerCase on one character
LowerChar(c) ==
  IF c \in Range(UpperLetters)
    THEN LowerLetters[CHOOSE i \in DOMAIN UpperLetters : UpperLetters[i] = c]
    ELSE c

ToLowerCase(s) == [i \in 1..Len(s) |-> LowerChar(s[i])]

RECURSIVE TrimStart(_)
TrimStart(s) ==
  IF s = <<>> THEN <<>>
  ELSE IF IsSpace(Head(s)) THEN TrimStart(Tail(s)) ELSE s

RECURSIVE TrimEnd(_)
TrimEnd(s) ==
  IF s = <<>> THEN <<>>
  ELSE IF IsSpace(s[Len(s)]) THEN TrimEnd(SubSeq(s, 1, Len(s) - 1)) ELSE s

\* String.prototype.trim
Trim(s) == TrimEnd(TrimStart(s))

\* s.replace(/[...]/g, ""): drop every character of the set drop
RemoveChars(s, drop) == SelectSeq(s, LAMBDA c : c \notin drop)

\* s.replace(/[^...]/g, ""): keep only the characters of the set keep
KeepChars(s, keep) == SelectSeq(s, LAMBDA c : c \in keep)

\* s.replace(/[...]+/g, "_"): every maximal run of characters of the set
\* runChars becomes one underscore
RECURSIVE ReplaceRuns(_, _, _)
ReplaceRuns(s, runChars, inRun) ==
  IF s = <<>> THEN <<>>
  ELSE IF Head(s) \in runChars
    THEN (IF inRun THEN <<>> ELSE <<"_">>) \o ReplaceRuns(Tail(s), runChars, TRUE)
    ELSE <<Head(s)>> \o ReplaceRuns(Tail(s), runChars, FALSE)

\* s.replace(/[^...]+/g, "_"): every maximal run of characters outside the
\* set keep becomes one underscore
RECURSIVE ReplaceRunsOutside(_, _, _)
ReplaceRunsOutside(s, keep, inRun) ==
  IF s = <<>> THEN <<>>
  ELSE IF Head(s) \notin keep
    THEN (IF inRun THEN <<>> ELSE <<"_">>) \o ReplaceRunsOutside(Tail(s), keep, TRUE)
    ELSE <<Head(s)>> \o ReplaceRunsOutside(Tail(s), keep, FALSE)

RECURSIVE StripLeadingUnderscores(_)
StripLeadingUnderscores(s) ==
  IF s = <<>> THEN <<>>
  ELSE IF Head(s) = "_" THEN StripLeadingUnderscores(Tail(s)) ELSE s

RECURSIVE StripTrailingUnderscores(_)
StripTrailingUnderscores(s) ==
  IF s = <<>> THEN <<>>
  ELSE IF s[Len(s)] = "_" THEN StripTrailingUnderscores(SubSeq(s, 1, Len(s) - 1)) ELSE s

\* s.replace(/^_+|_+$/g, "")
StripUnderscores(s) == StripTrailingUnderscores(StripLeadingUnderscores(s))

\* s.startsWith(p)
StartsWith(s, p) == Len(s) >= Len(p) /\ SubSeq(s, 1, Len(p)) = p

\* s ends with p
EndsWith(s, p) == Len(s) >= Len(p) /\ SubSeq(s, Len(s) - Len(p) + 1, Len(s)) = p

\* the strings of a joined by commas
RECURSIVE JoinComma(_)
JoinComma(a) ==
  IF a = <<>> THEN <<>>
  ELSE IF Len(a) = 1 THEN a[1]
  ELSE a[1] \o <<",">> \o JoinComma(Tail(a))

\* decimal digits of a natural number
RECURSIVE DigitsOf(_)
DigitsOf(n) ==
  IF n < 10 THEN <<DigitChars[n + 1]>>
  ELSE DigitsOf(n \div 10) \o <<DigitChars[(n % 10) + 1]>>

\* ------------------------------------------------------------------------
\* JSON values
\* ------------------------------------------------------------------------

Absent == [k |-> "absent", s |-> <<>>, n |-> 0, a |-> <<>>]

Null == [k |-> "null", s |-> <<>>, n |-> 0, a |-> <<>>]

True == [k |-> "true", s |-> <<>>, n |-> 0, a |-> <<>>]

False == [k |-> "false", s |-> <<>>, n |-> 0, a |-> <<>>]

Str(x) == [k |-> "str", s |-> x, n |-> 0, a |-> <<>>]

Num(x) == [k |-> "num", s |-> <<>>, n |-> x, a |-> <<>>]

Arr(x) == [k |-> "arr", s |-> <<>>, n |-> 0, a |-> x]

NestedObj == [k |-> "obj", s |-> <<>>, n |-> 0, a |-> <<>>]

\* an object with a field toString that is no function, as JSON.parse
\* builds from {"toString": 1}; n tells it from the plain object
Unprintable == [k |-> "obj", s |-> <<>>, n |-> 1, a |-> <<>>]

\* the outcome of a promise that rejected instead of resolving to a value
Rejected == [k |-> "rejected", s |-> <<>>, n |-> 0, a |-> <<>>]

\* JavaScript truthiness (the left operand of || and the test of if)
Truthy(v) ==
  \/ v.k = "str" /\ v.s # <<>>
  \/ v.k = "num" /\ v.n # 0
  \/ v.k \in {"true", "arr", "obj"}

\* a || b
Or(v, w) == IF Truthy(v) THEN v ELSE w

ObjectObjectText == <<"[","o","b","j","e","c","t"," ","O","b","j","e","c","t","]">>

\* String(v) for a value that is not an array
ScalarString(v) ==
  CASE v.k = "str" -> v.s
    [] v.k = "num" -> IF v.n < 0 THEN <<"-">> \o DigitsOf(0 - v.n) ELSE DigitsOf(v.n)
    [] v.k = "obj" -> ObjectObjectText
    [] v.k = "true" -> <<"t","r","u","e">>
    [] v.k = "false" -> <<"f","a","l","s","e">>
    [] v.k = "null" -> <<"n","u","l","l">>
    [] OTHER -> <<"u","n","d","e","f","i","n","e","d">>

\* String(v); Array.prototype.join writes null and undefined elements as ""
JsString(v) ==
  IF v.k = "arr"
    THEN JoinComma([i \in 1..Len(v.a) |->
                      IF v.a[i].k \in {"null", "absent"} THEN <<>> ELSE ScalarString(v.a[i])])
    ELSE ScalarString(v)

\* String(v) throws a TypeError: no toString to call, and valueOf returns
\* the object; an array asks each of its elements in turn
RECURSIVE StringThrows(_)
StringThrows(v) ==
  \/ v.k = "obj" /\ v.n # 0
  \/ v.k = "arr" /\ \E i \in 1..Len(v.a) : StringThrows(v.a[i])

\* A JSON object: a function from the names of its fields to their values
EmptyObj == [f \in {} |-> Absent]

\* o.f (undefined when o has no field f)
Get(o, f) == IF f \in DOMAIN o THEN o[f] ELSE Absent

\* o.f = v
SetField(o, f, v) == [g \in (DOMAIN o) \cup {f} |-> IF g = f THEN v ELSE o[g]]

\* ------------------------------------------------------------------------
\* Pure helpers of autofill.js
\* ------------------------------------------------------------------------

PlaceholderJpg == <<"p","l","a","c","e","h","o","l","d","e","r",".","j","p","g">>

JpgExt == <<".","j","p","g">>

toImagePlaceholder(title) ==
  LET lowered == ToLowerCase(Trim(title))
      noQuotes == RemoveChars(lowered, {"'"})
      slug == StripUnderscores(ReplaceRunsOutside(noQuotes, LowerAlnum, FALSE))
  IN  IF slug # <<>> THEN slug \o JpgExt ELSE PlaceholderJpg

\* tagPattern "^[a-z0-9][a-z0-9_-]*$"
MatchesTagPattern(s) ==
  /\ s # <<>>
  /\ s[1] \in LowerAlnum
  /\ \A i \in 1..Len(s) : s[i] \in LowerAlnum \cup {"_", "-"}

\* imagePattern "^[a-z0-9][a-z0-9_]*\.jpg$"
MatchesImagePattern(s) ==
  /\ EndsWith(s, JpgExt)
  /\ Len(s) > Len(JpgExt)
  /\ s[1] \in LowerAlnum
  /\ \A i \in 1..(Len(s) - Len(JpgExt)) : s[i] \in LowerAlnum \cup {"_"}

cleanTag(t) ==
  LET lowered == Trim(ToLowerCase(JsString(Or(t, Str(<<>>)))))
      joined == ReplaceRuns(lowered, {" ", "\t"}, FALSE)
      kept == KeepChars(joined, LowerAlnum \cup {"_", "-"})
  IN  StripUnderscores(kept)

\* [...new Set(tags)]: first occurrences, in order
RECURSIVE Dedupe(_, _)
Dedupe(tags, seen) ==
  IF tags = <<>> THEN <<>>
  ELSE IF Head(tags) \in seen THEN Dedupe(Tail(tags), seen)
  ELSE <<Head(tags)>> \o Dedupe(Tail(tags), seen \cup {Head(tags)})

\* tags.slice(0, n)
Slice(tags, n) == SubSeq(tags, 1, IF Len(tags) < n THEN Len(tags) ELSE n)

MaxTags == 6

MinTags == 2

PadTags ==
  << <<"s","p","a","c","e","_","s","e","t","t","l","e","m","e","n","t">>,
     <<"s","p","a","c","e","f","l","i","g","h","t">>,
     <<"r","e","f","e","r","e","n","c","e">>,
     <<"b","i","o","g","r","a","p","h","y">> >>

\* PadLoop without the test !tags.includes(next)
RECURSIVE PadLoop_NoIncludesTest(_, _)
PadLoop_NoIncludesTest(tags, pad) ==
  IF Len(tags) < MinTags /\ pad # <<>>
    THEN PadLoop_NoIncludesTest(Append(tags, Head(pad)), Tail(pad))
    ELSE tags

\* while (tags.length < 2 && pad.length) { next = pad.shift(); if (!tags.includes(next)) tags.push(next) }
RECURSIVE PadLoop(_, _)
PadLoop(tags, pad) ==
  IF Len(tags) < MinTags /\ pad # <<>>
    THEN IF Head(pad) \notin Range(tags)
           THEN PadLoop(Append(tags, Head(pad)), Tail(pad))
           ELSE PadLoop(tags, Tail(pad))
    ELSE tags

\* NormalizeTags taking the duplicates out before it cleans the tags
NormalizeTags_DedupeBeforeClean(v) ==
  LET unique == IF v.k = "arr" THEN Dedupe(v.a, {}) ELSE <<>>
      cleaned == SelectSeq([i \in 1..Len(unique) |-> cleanTag(unique[i])],
                           LAMBDA t : t # <<>>)
  IN  Slice(PadLoop(Slice(cleaned, MaxTags), PadTags), MaxTags)

\* obj.tags of the record, from the tags value the generator returned
NormalizeTags(v) ==
  LET cleaned == IF v.k = "arr"
                   THEN SelectSeq([i \in 1..Len(v.a) |-> cleanTag(v.a[i])],
                                  LAMBDA t : t # <<>>)
                   ELSE <<>>
      unique == Slice(Dedupe(cleaned, {}), MaxTags)
  IN  Slice(PadLoop(unique, PadTags), MaxTags)

MinSummaryLen == 20

SummarySentinel == <<"R","e","c","o","g","n","i","t","i","o","n"," ","a","m","o","n","g"," ","s","c","i","e","n","t","i","s","t","s",":"," ","n","o","t"," ","e","s","t","a","b","l","i","s","h","e","d"," ","f","r","o","m"," ","p","r","o","v","i","d","e","d"," ","c","o","n","t","e","x","t","."," ","C","o","n","t","r","i","b","u","t","i","o","n"," ","t","o"," ","s","p","a","c","e"," ","s","e","t","t","l","e","m","e","n","t",":"," ","n","o","t"," ","e","s","t","a","b","l","i","s","h","e","d"," ","f","r","o","m"," ","p","r","o","v","i","d","e","d"," ","c","o","n","t","e","x","t",".">>

\* NormalizeSummary with the length tested before the trim
NormalizeSummary_LengthBeforeTrim(v) ==
  LET untrimmed == JsString(Or(v, Str(<<>>)))
  IN  IF Len(untrimmed) < MinSummaryLen THEN SummarySentinel ELSE Trim(untrimmed)

\* obj.summary of the record, from the summary value the generator returned
NormalizeSummary(v) ==
  LET trimmed == Trim(JsString(Or(v, Str(<<>>))))
  IN  IF Len(trimmed) < MinSummaryLen THEN SummarySentinel ELSE trimmed

\* ------------------------------------------------------------------------
\* Source resolvers: the value each returns for the response it received
\* ------------------------------------------------------------------------

HttpText == <<"h","t","t","p">>

\* wikipediaUrlForTitle without its try/catch: a failed fetch rejects
wikipediaUrlForTitle_NoCatch(r) ==
  IF r.net = "error" THEN Rejected
  ELSE IF ~r.ok THEN Null
  ELSE IF ~r.wf THEN Rejected
  ELSE IF r.type = "disambiguation" THEN Null
  ELSE IF r.page.k = "str" /\ StartsWith(r.page.s, HttpText) THEN r.page
  ELSE Null

\* wikipediaUrlForTitle without the test of data.type
wikipediaUrlForTitle_NoDisambiguationTest(r) ==
  IF r.net = "error" THEN Null
  ELSE IF ~r.ok THEN Null
  ELSE IF ~r.wf THEN Null
  ELSE IF r.page.k = "str" /\ StartsWith(r.page.s, HttpText) THEN r.page
  ELSE Null

\* A response of the Wikipedia summary endpoint: net "error" when fetch
\* rejects, ok the res.ok flag, wf whether res.json() parses, type and page
\* the fields data.type and data.content_urls.desktop.page.
\* wikipediaUrlForTitle: the page URL (a string) or null
wikipediaUrlForTitle(r) ==
  IF r.net = "error" THEN Null
  ELSE IF ~r.ok THEN Null
  ELSE IF ~r.wf THEN Null
  ELSE IF r.type = "disambiguation" THEN Null
  ELSE IF r.page.k = "str" /\ StartsWith(r.page.s, HttpText) THEN r.page
  ELSE Null

\* /^Q\d+$/
MatchesQid(s) ==
  /\ Len(s) >= 2
  /\ s[1] = "Q"
  /\ \A i \in 2..Len(s) : s[i] \in Range(DigitChars)

\* A response of the MediaWiki pageprops query: pages is "none" (no
\* query.pages object), "empty" (an object without keys) or "one"; item is
\* pageprops.wikibase_item of the first page.
\* wikipediaQidForTitle: the QID (a string) or null
wikipediaQidForTitle(r) ==
  IF r.net = "error" THEN Null
  ELSE IF ~r.ok THEN Null
  ELSE IF ~r.wf THEN Null
  ELSE IF r.pages = "none" THEN Null
  ELSE IF r.pages = "empty" THEN Null
  ELSE IF r.item.k = "str" /\ MatchesQid(r.item.s) THEN r.item
  ELSE Null

\* the longest prefix of s made of digits
RECURSIVE DigitPrefix(_)
DigitPrefix(s) ==
  IF s = <<>> THEN <<>>
  ELSE IF Head(s) \in Range(DigitChars) THEN <<Head(s)>> \o DigitPrefix(Tail(s))
  ELSE <<>>

\* parseInt(digits, 10) of a non-empty string of digits
RECURSIVE ParseDigits(_)
ParseDigits(d) ==
  IF d = <<>> THEN 0
  ELSE ParseDigits(SubSeq(d, 1, Len(d) - 1)) * 10
         + ((CHOOSE i \in DOMAIN DigitChars : DigitChars[i] = d[Len(d)]) - 1)

\* yearFromWikidataTime: t.match(/^([+-])(\d{1,})-/), then parseInt of group 2
yearFromWikidataTime(t) ==
  IF t.k # "str" THEN Null
  ELSE IF t.s = <<>> \/ Head(t.s) \notin {"+", "-"} THEN Null
  ELSE LET digits == DigitPrefix(Tail(t.s))
           rest == SubSeq(t.s, Len(digits) + 2, Len(t.s))
       IN  IF digits = <<>> \/ rest = <<>> \/ Head(rest) # "-" THEN Null
           ELSE Num(ParseDigits(digits))

\* The value of yearsPromise: null, or a bundle {birthYear, deathYear}
NoYears == [nil |-> TRUE, birthYear |-> Null, deathYear |-> Null]

Bundle(b, d) == [nil |-> FALSE, birthYear |-> b, deathYear |-> d]

\* yearsPromise rejected
RejectedYears == [nil |-> TRUE, birthYear |-> Rejected, deathYear |-> Rejected]

\* A response of Wikidata's EntityData: entity whether data.entities[qid]
\* exists, birth and death the time values of its first P569 / P570 claim.
\* wikidataYearsForQid for a non-null qid
wikidataYearsForQid(r) ==
  IF r.net = "error" THEN NoYears
  ELSE IF ~r.ok THEN NoYears
  ELSE IF ~r.wf THEN NoYears
  ELSE IF ~r.entity THEN NoYears
  ELSE Bundle(yearFromWikidataTime(r.birth), yearFromWikidataTime(r.death))

\* ------------------------------------------------------------------------
\* The generator's response and its extraction
\* ------------------------------------------------------------------------

\* A JSON document as JSON.parse returns it: k its kind, o its fields when it
\* is an object, s its characters when it is a string.
DocObj(o) == [k |-> "obj", o |-> o, s |-> <<>>]

DocStr(x) == [k |-> "str", o |-> EmptyObj, s |-> x]

DocOf(kind) == [k |-> kind, o |-> EmptyObj, s |-> <<>>]

DocNull == DocOf("null")

\* A string that may hold JSON: k is "absent" (not a string), "blank" (empty
\* after trim), "garbage" (JSON.parse throws) or "json" (parses to doc).
TextOf(kind) == [k |-> kind, doc |-> DocNull]

TextJson(doc) == [k |-> "json", doc |-> doc]

\* typeof c.json === "object" for a truthy c.json
IsJsObject(doc) == doc.k \in {"obj", "arr"}

\* all content blocks of data.output, in order
RECURSIVE AllBlocks(_)
AllBlocks(outputs) ==
  IF outputs = <<>> THEN <<>>
  ELSE Head(outputs).content \o AllBlocks(Tail(outputs))

\* first loop: the first block whose json is an object
RECURSIVE FirstJsonBlock(_)
FirstJsonBlock(blocks) ==
  IF blocks = <<>> THEN TextOf("absent")
  ELSE IF IsJsObject(Head(blocks).json) THEN TextJson(Head(blocks).json)
  ELSE FirstJsonBlock(Tail(blocks))

\* FirstTextBlock reading only the blocks typed "text"
RECURSIVE FirstTextBlock_OnlyTextType(_)
FirstTextBlock_OnlyTextType(blocks) ==
  IF blocks = <<>> THEN TextOf("absent")
  ELSE IF Head(blocks).type = "text" /\ Head(blocks).text.k = "json"
    THEN Head(blocks).text
  ELSE FirstTextBlock_OnlyTextType(Tail(blocks))

\* second loop: the first text block whose trimmed text parses
RECURSIVE FirstTextBlock(_)
FirstTextBlock(blocks) ==
  IF blocks = <<>> THEN TextOf("absent")
  ELSE IF Head(blocks).type \in {"output_text", "text"} /\ Head(blocks).text.k = "json"
    THEN Head(blocks).text
  ELSE FirstTextBlock(Tail(blocks))

\* extractStructuredJson with one loop that tries both shapes on each block
extractStructuredJson_SingleLoop(data) ==
  LET blocks == AllBlocks(data.output)
      hits == { i \in 1..Len(blocks) :
                  \/ IsJsObject(blocks[i].json)
                  \/ blocks[i].type \in {"output_text", "text"} /\ blocks[i].text.k = "json" }
      first == CHOOSE i \in hits : \A j \in hits : i <= j
  IN  IF hits # {}
        THEN IF IsJsObject(blocks[first].json) THEN blocks[first].json
             ELSE blocks[first].text.doc
      ELSE IF data.output_text.k = "json" THEN data.output_text.doc
      ELSE DocNull

\* extractStructuredJson(data): the extracted document, or null
extractStructuredJson(data) ==
  LET blocks == AllBlocks(data.output)
      a == FirstJsonBlock(blocks)
      b == FirstTextBlock(blocks)
  IN  IF a.k = "json" THEN a.doc
      ELSE IF b.k = "json" THEN b.doc
      ELSE IF data.output_text.k = "json" THEN data.output_text.doc
      ELSE DocNull

\* !extracted is false
DocTruthy(doc) ==
  \/ doc.k \in {"obj", "arr", "true", "num"}
  \/ doc.k = "str" /\ doc.s # <<>>

IndexNames == <<"0", "1", "2", "3">>

\* { ...extracted }: the own enumerable properties of the document
Spread(doc) ==
  IF doc.k = "obj" THEN doc.o
  ELSE IF doc.k = "str"
    THEN [f \in { IndexNames[i] : i \in 1..Len(doc.s) } |->
            Str(<<doc.s[CHOOSE i \in 1..Len(doc.s) : IndexNames[i] = f]>>)]
  ELSE EmptyObj

\* ------------------------------------------------------------------------
\* JSON.parse of the text of a content block or of output_text
\* ------------------------------------------------------------------------

\* The texts are read by the JSON grammar restricted to null, true, false,
\* unsigned integers, strings without escapes, arrays and objects; the
\* texts the generator is given to answer with stay inside it.

\* a value read off a text: a JSON value and, for an object, its fields o
Parsed(v, o) == [k |-> v.k, s |-> v.s, n |-> v.n, a |-> v.a, o |-> o]

\* that value as a field or an element of another value
AsValue(p) == [k |-> p.k, s |-> p.s, n |-> p.n, a |-> p.a]

\* the outcome of reading one value off the front of a text: the value and
\* the text left after it, or a SyntaxError
ReadOk(p, rest) == [ok |-> TRUE, v |-> p, rest |-> rest]

SyntaxError == [ok |-> FALSE, v |-> Parsed(Null, EmptyObj), rest |-> <<>>]

QuoteChar == "\""

\* the name a string of characters spells
RECURSIVE NameOf(_)
NameOf(cs) == IF cs = <<>> THEN "" ELSE Head(cs) \o NameOf(Tail(cs))

\* the position of the first quote at or after i, 0 when there is none
RECURSIVE ClosingQuote(_, _)
ClosingQuote(s, i) ==
  IF i > Len(s) THEN 0
  ELSE IF s[i] = QuoteChar THEN i
  ELSE ClosingQuote(s, i + 1)

\* a string: s starts with a quote
ReadString(s) ==
  LET j == ClosingQuote(s, 2)
      body == SubSeq(s, 2, j - 1)
  IN  IF j = 0 THEN SyntaxError
      ELSE IF \E i \in 1..Len(body) : body[i] \in {"\\", "\t"} THEN SyntaxError
      ELSE ReadOk(Parsed(Str(body), EmptyObj), SubSeq(s, j + 1, Len(s)))

\* a number: s starts with a digit; a leading zero ends the number
ReadNumber(s) ==
  LET d == IF Head(s) = "0" THEN <<"0">> ELSE DigitPrefix(s)
  IN  ReadOk(Parsed(Num(ParseDigits(d)), EmptyObj), SubSeq(s, Len(d) + 1, Len(s)))

\* one of the literals null, true, false at the front of s
ReadLiteral(s, word, v) ==
  IF StartsWith(s, word)
    THEN ReadOk(Parsed(v, EmptyObj), SubSeq(s, Len(word) + 1, Len(s)))
    ELSE SyntaxError

RECURSIVE ReadValue(_), ReadElements(_, _), ReadMembers(_, _)

\* the value at the front of s
ReadValue(s) ==
  IF s = <<>> THEN SyntaxError
  ELSE IF Head(s) = "n" THEN ReadLiteral(s, <<"n","u","l","l">>, Null)
  ELSE IF Head(s) = "t" THEN ReadLiteral(s, <<"t","r","u","e">>, True)
  ELSE IF Head(s) = "f" THEN ReadLiteral(s, <<"f","a","l","s","e">>, False)
  ELSE IF Head(s) = QuoteChar THEN ReadString(s)
  ELSE IF Head(s) \in Range(DigitChars) THEN ReadNumber(s)
  ELSE IF Head(s) = "["
    THEN LET r == TrimStart(Tail(s))
         IN  IF r # <<>> /\ Head(r) = "]"
               THEN ReadOk(Parsed(Arr(<<>>), EmptyObj), Tail(r))
               ELSE ReadElements(r, <<>>)
  ELSE IF Head(s) = "{"
    THEN LET r == TrimStart(Tail(s))
         IN  IF r # <<>> /\ Head(r) = "}"
               THEN ReadOk(Parsed(NestedObj, EmptyObj), Tail(r))
               ELSE ReadMembers(r, EmptyObj)
  ELSE SyntaxError

\* the elements of an array after those of acc, up to its closing bracket
ReadElements(s, acc) ==
  LET e == ReadValue(s)
      r == TrimStart(e.rest)
      all == Append(acc, AsValue(e.v))
  IN  IF ~e.ok \/ r = <<>> THEN SyntaxError
      ELSE IF Head(r) = "," THEN ReadElements(TrimStart(Tail(r)), all)
      ELSE IF Head(r) = "]" THEN ReadOk(Parsed(Arr(all), EmptyObj), Tail(r))
      ELSE SyntaxError

\* the members of an object after those of o, up to its closing brace; a
\* name met twice keeps its last value
ReadMembers(s, o) ==
  IF s = <<>> \/ Head(s) # QuoteChar THEN SyntaxError
  ELSE LET key == ReadString(s)
           c == TrimStart(key.rest)
           m == ReadValue(TrimStart(Tail(c)))
           r == TrimStart(m.rest)
           all == SetField(o, NameOf(key.v.s), AsValue(m.v))
       IN  IF ~key.ok \/ c = <<>> THEN SyntaxError
           ELSE IF Head(c) # ":" THEN SyntaxError
           ELSE IF ~m.ok \/ r = <<>> THEN SyntaxError
           ELSE IF Head(r) = "," THEN ReadMembers(TrimStart(Tail(r)), all)
           ELSE IF Head(r) = "}" THEN ReadOk(Parsed(NestedObj, all), Tail(r))
           ELSE SyntaxError

\* JSON.parse(s): one value, with nothing but white space around it
JsonParse(s) ==
  LET r == ReadValue(TrimStart(s))
  IN  IF r.ok /\ TrimStart(r.rest) = <<>> THEN r ELSE SyntaxError

\* the document JSON.parse returned
DocOfParsed(p) ==
  CASE p.k = "obj" -> DocObj(p.o)
    [] p.k = "str" -> DocStr(p.s)
    [] p.k = "num" -> IF p.n = 0 THEN DocOf("zero") ELSE DocOf("num")
    [] OTHER -> DocOf(p.k)

\* c.text or data.output_text as the response carries it: str whether it is
\* a string, s its characters
NotText == [str |-> FALSE, s |-> <<>>]

Text(s) == [str |-> TRUE, s |-> s]

\* lines 57-64 and 69-78: typeof t === "string", t.trim(), JSON.parse
TextRead(t) ==
  IF ~t.str THEN TextOf("absent")
  ELSE IF Trim(t.s) = <<>> THEN TextOf("blank")
  ELSE IF ~JsonParse(Trim(t.s)).ok THEN TextOf("garbage")
  ELSE TextJson(DocOfParsed(JsonParse(Trim(t.s)).v))

\* a content block with its text read
BlockRead(c) == [type |-> c.type, json |-> c.json, text |-> TextRead(c.text)]

\* the response with every text it carries read
EnvelopeRead(data) ==
  [output |-> [i \in 1..Len(data.output) |->
                 [content |-> [j \in 1..Len(data.output[i].content) |->
                                 BlockRead(data.output[i].content[j])]]],
   output_text |-> TextRead(data.output_text)]

\* extractStructuredJson(data) for a response that carries its texts as the
\* strings they are
extractFromWire(data) == extractStructuredJson(EnvelopeRead(data))

\* ------------------------------------------------------------------------
\* The handler: request validation and the record it builds
\* ------------------------------------------------------------------------

NoWikiText == <<"k","e","i","n"," ","W","i","k","i">>

TopicText == <<"t","o","p","i","c">>

PersonText == <<"p","e","r","s","o","n">>

\* const title = String(req.title || "").trim()
RequestTitle(body) == Trim(JsString(Or(body.title, Str(<<>>))))

\* const type = String(req.type || "topic").trim()
RequestType(body) == Trim(JsString(Or(body.type, Str(TopicText))))

\* obj.type = String(obj.type || type || "topic")
RecordType(o, ty) == Str(JsString(Or(Get(o, "type"), Or(Str(ty), Str(TopicText)))))

\* RecordHref that keeps an href the generator supplied
RecordHref_KeepsGenerated(o, url) == Or(Get(o, "href"), Or(url, Str(NoWikiText)))

\* obj.href = wikiUrl || "kein Wiki"
RecordHref(o, url) == Or(url, Str(NoWikiText))

\* obj.image = String(obj.image || toImagePlaceholder(title))
RecordImage(o, ti) == Str(JsString(Or(Get(o, "image"), Str(toImagePlaceholder(ti)))))

\* obj.summary after lines 335-339
RecordSummary(o) == Str(NormalizeSummary(Get(o, "summary")))

\* obj.tags after lines 349-357
RecordTags(o) ==
  LET tags == NormalizeTags(Get(o, "tags"))
  IN  Arr([i \in 1..Len(tags) |-> Str(tags[i])])

\* if (years && typeof years.birthYear === "number") obj.birthYear = years.birthYear
EnforceBirthYear(o, ty, yrs) ==
  IF ty = PersonText /\ ~yrs.nil /\ yrs.birthYear.k = "num"
    THEN SetField(o, "birthYear", yrs.birthYear)
    ELSE o

\* EnforceDeathYear that, like birthYear, overrides only with a number
EnforceDeathYear_OnlyNumbers(o, ty, yrs) ==
  IF ty = PersonText /\ ~yrs.nil /\ yrs.deathYear.k = "num"
    THEN SetField(o, "deathYear", yrs.deathYear)
    ELSE o

\* EnforceDeathYear that writes null for every person request, bundle or not
EnforceDeathYear_WithoutBundle(o, ty, yrs) ==
  IF ty = PersonText
    THEN SetField(o, "deathYear",
                  IF ~yrs.nil /\ yrs.deathYear.k = "num" THEN yrs.deathYear ELSE Null)
    ELSE o

\* if (years) obj.deathYear = typeof years.deathYear === "number" ? years.deathYear : null
EnforceDeathYear(o, ty, yrs) ==
  IF ty = PersonText /\ ~yrs.nil
    THEN SetField(o, "deathYear", IF yrs.deathYear.k = "num" THEN yrs.deathYear ELSE Null)
    ELSE o

\* const obj = { ...extracted }
InitialObj(doc) == Spread(doc)

\* the object passed to json(200, obj)
BuildRecord(doc, ty, ti, url, yrs) ==
  LET o0 == InitialObj(doc)
      o1 == SetField(o0, "type", RecordType(o0, ty))
      o2 == SetField(o1, "title", Str(ti))
      o3 == SetField(o2, "href", RecordHref(o2, url))
      o4 == SetField(o3, "image", RecordImage(o3, ti))
      o5 == SetField(o4, "summary", RecordSummary(o4))
      o6 == SetField(o5, "tags", RecordTags(o5))
      o7 == EnforceBirthYear(o6, ty, yrs)
  IN  EnforceDeathYear(o7, ty, yrs)

\* A body of the generator's response as res.text() returns it: wf whether
\* JSON.parse accepts it, data the envelope it parses to, s its characters
\* when it is not JSON.  NoRaw stands where no body is quoted.
NoRaw == [wf |-> FALSE, s |-> <<>>, data |-> [output |-> <<>>, output_text |-> TextOf("absent")]]

\* lines 329-349: one of the String(...) calls of the merge throws
MergeThrows(o) ==
  \/ StringThrows(Or(Get(o, "type"), Str(<<>>)))
  \/ StringThrows(Or(Get(o, "image"), Str(<<>>)))
  \/ StringThrows(Or(Get(o, "summary"), Str(<<>>)))
  \/ /\ Get(o, "tags").k = "arr"
     /\ \E i \in 1..Len(Get(o, "tags").a) : StringThrows(Or(Get(o, "tags").a[i], Str(<<>>)))

\* The handler's return value: ctype "json" for json(...), "text" for
\* text(...), "empty" for the bare 204; error names the text message,
\* upstream is the status quoted in it and raw the body quoted in it.
NoResponse ==
  [statusCode |-> 0, ctype |-> "none", obj |-> EmptyObj, error |-> "none", upstream |-> 0,
   raw |-> NoRaw]

json(code, o) ==
  [statusCode |-> code, ctype |-> "json", obj |-> o, error |-> "none", upstream |-> 0,
   raw |-> NoRaw]

text(code, msg, up) ==
  [statusCode |-> code, ctype |-> "text", obj |-> EmptyObj, error |-> msg, upstream |-> up,
   raw |-> NoRaw]

\* text(code, `... ${raw}`): the message ends with the body
Quoting(t, raw) == [t EXCEPT !.raw = raw]

Preflight ==
  [statusCode |-> 204, ctype |-> "empty", obj |-> EmptyObj, error |-> "none", upstream |-> 0,
   raw |-> NoRaw]

\* ------------------------------------------------------------------------
\* Inputs: the requests and the upstream responses an invocation may meet
\* ------------------------------------------------------------------------

\* longest tag string enumerated exhaustively
MaxTagLen == 2

\* how many tags beyond the maximum the longest tag list carries
Overflow == 1

Rep(c, n) == [i \in 1..n |-> c]

TitleJD == <<"J", " ", "D">>

TitleON == <<" ", "O", "'", "N", "!">>

TitleBang == <<"!", "!">>

BookText == <<"b","o","o","k">>

CapitalPersonText == <<"P","e","r","s","o","n">>

Bodies ==
  {[wf |-> TRUE, title |-> Str(TitleJD), type |-> Str(<<" ">> \o PersonText)],
   [wf |-> TRUE, title |-> Str(TitleON), type |-> Str(BookText)],
   [wf |-> TRUE, title |-> Str(TitleJD), type |-> Str(CapitalPersonText)],
   [wf |-> TRUE, title |-> Str(TitleBang), type |-> Absent]}

BadBody == [wf |-> FALSE, title |-> Absent, type |-> Absent]

Events ==
  [httpMethod : {"POST"}, hasKey : {TRUE}, body : Bodies]
    \cup [httpMethod : {"OPTIONS", "GET"}, hasKey : {TRUE},
          body : {[wf |-> TRUE, title |-> Str(TitleJD), type |-> Absent]}]
    \cup [httpMethod : {"POST"}, hasKey : {FALSE},
          body : {[wf |-> TRUE, title |-> Str(TitleJD), type |-> Absent]}]
    \cup [httpMethod : {"POST"}, hasKey : {TRUE},
          body : {BadBody,
                  [wf |-> TRUE, title |-> Absent, type |-> Str(PersonText)],
                  [wf |-> TRUE, title |-> Str(<<" ", "\t">>), type |-> Str(PersonText)]}]

NoEvent == [httpMethod |-> "none", hasKey |-> FALSE, body |-> BadBody]

WikiPage == <<"h","t","t","p","s",":","/","/","w","/","J">>

DisambigPage == <<"h","t","t","p","s",":","/","/","w","/","d">>

WikiResponses ==
  {[net |-> "error", ok |-> FALSE, wf |-> FALSE, type |-> "none", page |-> Absent],
   [net |-> "ok", ok |-> FALSE, wf |-> TRUE, type |-> "none", page |-> Absent],
   [net |-> "ok", ok |-> FALSE, wf |-> TRUE, type |-> "standard", page |-> Str(WikiPage)],
   [net |-> "ok", ok |-> TRUE, wf |-> FALSE, type |-> "none", page |-> Absent],
   [net |-> "ok", ok |-> TRUE, wf |-> TRUE, type |-> "disambiguation", page |-> Str(DisambigPage)],
   [net |-> "ok", ok |-> TRUE, wf |-> TRUE, type |-> "standard", page |-> Str(WikiPage)],
   [net |-> "ok", ok |-> TRUE, wf |-> TRUE, type |-> "standard", page |-> Str(<<"/","w","/","J">>)],
   [net |-> "ok", ok |-> TRUE, wf |-> TRUE, type |-> "standard", page |-> Absent]}

NoQidResponse == [net |-> "none", ok |-> FALSE, wf |-> FALSE, pages |-> "none", item |-> Absent]

NoFactsResponse ==
  [net |-> "none", ok |-> FALSE, wf |-> FALSE, entity |-> FALSE, birth |-> Absent, death |-> Absent]

NoWikiResponse == [net |-> "none", ok |-> FALSE, wf |-> FALSE, type |-> "none", page |-> Absent]

QidResponses ==
  {[net |-> "error", ok |-> FALSE, wf |-> FALSE, pages |-> "none", item |-> Absent],
   [net |-> "ok", ok |-> FALSE, wf |-> TRUE, pages |-> "none", item |-> Absent],
   [net |-> "ok", ok |-> TRUE, wf |-> FALSE, pages |-> "none", item |-> Absent],
   [net |-> "ok", ok |-> TRUE, wf |-> TRUE, pages |-> "none", item |-> Absent],
   [net |-> "ok", ok |-> TRUE, wf |-> TRUE, pages |-> "empty", item |-> Absent],
   [net |-> "ok", ok |-> TRUE, wf |-> TRUE, pages |-> "one", item |-> Absent],
   [net |-> "ok", ok |-> TRUE, wf |-> TRUE, pages |-> "one", item |-> Str(<<"4","2">>)],
   [net |-> "ok", ok |-> TRUE, wf |-> TRUE, pages |-> "one", item |-> Str(<<"Q","4","2">>)]}

BirthTimes ==
  {Absent,
   Str(<<"+","1","9","5","0","-","0","1">>),
   Str(<<"-","0","0","4","4","-","0","3">>),
   Str(<<"1","9","5","0","-","0","1">>)}

DeathTimes == {Absent, Str(<<"+","2","0","1","0","-","1","2">>)}

FactsResponses ==
  {[net |-> "error", ok |-> FALSE, wf |-> FALSE, entity |-> FALSE, birth |-> Absent, death |-> Absent],
   [net |-> "ok", ok |-> FALSE, wf |-> TRUE, entity |-> FALSE, birth |-> Absent, death |-> Absent],
   [net |-> "ok", ok |-> TRUE, wf |-> FALSE, entity |-> FALSE, birth |-> Absent, death |-> Absent],
   [net |-> "ok", ok |-> TRUE, wf |-> TRUE, entity |-> FALSE, birth |-> Absent, death |-> Absent]}
    \cup [net : {"ok"}, ok : {TRUE}, wf : {TRUE}, entity : {TRUE},
          birth : BirthTimes, death : DeathTimes]

\* --- generator payloads ---

\* the object with the given fields, a field given as Absent being left out
MkPayload(ty, href, image, summary, tags, birth, death, notes) ==
  LET all == [type |-> ty, href |-> href, image |-> image, summary |-> summary,
              tags |-> tags, birthYear |-> birth, deathYear |-> death, notes |-> notes]
  IN  [f \in { g \in DOMAIN all : all[g].k # "absent" } |-> all[f]]

GenUrl == <<"h","t","t","p",":","/","/","g","e","n">>

GoodImage == <<"j","_","d",".","j","p","g">>

GoodSummary == Rep("x", MinSummaryLen + 1)

GoodTags == << Str(<<"m","a","r","s">>), Str(<<"o","r","b","i","t">>) >>

BasePayload ==
  MkPayload(Str(PersonText), Str(GenUrl), Str(GoodImage), Str(GoodSummary), Arr(GoodTags),
            Absent, Absent, Absent)

GenTypes == {Absent, Str(<<>>), Str(BookText), Arr(<<>>), Num(7), Unprintable}

GenHrefs == {Absent, Str(GenUrl)}

GenImages ==
  {Absent, Str(<<>>), Arr(<<>>),
   Str(<<"J"," ","D",".","P","N","G">>),
   Str(<<"i","m","g","/","a",".","j","p","g">>),
   Str(<<"_","a",".","j","p","g">>)}

GenSummaries ==
  {Absent, Null, Num(12345), Str(<<" ", " ">>),
   Str(Rep("x", 5)),
   Str(Rep("x", MinSummaryLen - 1)),
   Str(Rep("x", MinSummaryLen)),
   Str(<<" ">> \o Rep("x", MinSummaryLen - 1) \o <<" ", "\t">>),
   Str(<<" ">> \o Rep("x", MinSummaryLen) \o <<" ">>),
   Str(Rep("x", 9) \o <<" ", " ">> \o Rep("x", 9))}

TagAlphabet == {"a", "A", "_", "-", " ", "!"}

\* every string over TagAlphabet of length at most n
RECURSIVE StringsUpTo(_)
StringsUpTo(n) ==
  IF n = 0 THEN {<<>>}
  ELSE LET shorter == StringsUpTo(n - 1)
       IN  shorter \cup { Append(t, c) : t \in shorter, c \in TagAlphabet }

LongTagList == [i \in 1..(MaxTags + Overflow) |-> Str(<<LowerLetters[i]>>)]

GenTags ==
  {Absent, Null, Str(<<"m","a","r","s">>), Arr(<<>>), Arr(LongTagList),
   Arr(<< Str(<<"M","a","r","s">>), Str(<<"m","a","r","s"," ">>), Str(<<"m","a","r","s","!">>) >>),
   Arr(<< Str(<<"S","p","a","c","e"," ","S","e","t","t","l","e","m","e","n","t">>) >>),
   Arr(<< Str(<<"s","p","a","c","e","f","l","i","g","h","t">>) >>),
   Arr(<< Str(<<"-","m","a","r","s">>), Str(<<"o","r","b","i","t">>) >>),
   Arr(<< Null, Num(0), Num(5), True, NestedObj, Str(<<"5">>) >>),
   Arr(<< Str(<<"m","a","r","s">>), Unprintable >>)}
    \cup { Arr(<<Str(t)>>) : t \in StringsUpTo(MaxTagLen) }
    \cup { Arr(<<Str(t), Str(<<"a">>)>>) : t \in StringsUpTo(MaxTagLen - 1) }

GenBirths == {Absent, Num(1900), Str(<<"1","9","0","0">>)}

GenDeaths == {Absent, Num(2000), Null}

GenNotes == {Absent, Str(<<"x">>)}

EmptyPayload == MkPayload(Absent, Absent, Absent, Absent, Absent, Absent, Absent, Absent)

Payloads ==
  {BasePayload, EmptyPayload}
    \cup { [BasePayload EXCEPT !.type = v] : v \in GenTypes \ {Absent} }
    \cup { [BasePayload EXCEPT !.image = v] : v \in GenImages \ {Absent} }
    \cup { [BasePayload EXCEPT !.summary = v] : v \in GenSummaries \ {Absent} }
    \cup { [BasePayload EXCEPT !.tags = v] : v \in GenTags \ {Absent} }
    \cup { MkPayload(Str(PersonText), h, Str(GoodImage), Str(GoodSummary), Arr(GoodTags), b, d, n) :
             h \in GenHrefs, b \in GenBirths, d \in GenDeaths, n \in GenNotes }

\* --- generator responses ---

NoBlockJson == DocOf("absent")

JsonBlock(doc) == [type |-> "output_json", json |-> doc, text |-> TextOf("absent")]

TextBlock(ty, txt) == [type |-> ty, json |-> NoBlockJson, text |-> txt]

Output(blocks) == [content |-> blocks]

Envelope(outputs, top) == [output |-> outputs, output_text |-> top]

\* the three envelope shapes carrying one payload
AsJsonBlock(p) == Envelope(<<Output(<<JsonBlock(DocObj(p))>>)>>, TextOf("absent"))

AsTextBlock(p) == Envelope(<<Output(<<TextBlock("output_text", TextJson(DocObj(p)))>>)>>, TextOf("absent"))

AsOutputText(p) == Envelope(<<>>, TextJson(DocObj(p)))

\* documents that are not objects
ScalarDocs ==
  {DocNull, DocOf("false"), DocOf("zero"), DocOf("true"), DocOf("num"), DocOf("arr"),
   DocStr(<<>>), DocStr(<<"h", "i">>)}

\* texts that are JSON but no object
ScalarTexts == {<<"5">>, <<QuoteChar, "h", "i", QuoteChar>>, <<"t", "r", "u", "e">>}

Envelopes ==
  { AsJsonBlock(p) : p \in Payloads }
    \cup { AsTextBlock(p) : p \in {BasePayload, EmptyPayload} }
    \cup { AsOutputText(p) : p \in {BasePayload, EmptyPayload} }
    \cup { Envelope(<<Output(<<TextBlock("text", TextJson(d))>>)>>, TextOf("absent")) : d \in ScalarDocs }
    \cup { Envelope(<<>>, TextOf(k)) : k \in {"absent", "blank", "garbage"} }
    \cup { Envelope(<<Output(<<TextBlock("output_text", TextOf("garbage")),
                               TextBlock("text", TextJson(DocObj(BasePayload)))>>)>>,
                    TextOf("absent")),
           Envelope(<<Output(<<TextBlock("other", TextJson(DocObj(BasePayload)))>>)>>,
                    TextOf("blank")),
           Envelope(<<Output(<<JsonBlock(DocOf("arr"))>>)>>, TextOf("absent")) }
    \cup { EnvelopeRead(Envelope(<<>>, Text(t))) : t \in ScalarTexts }

\* A response of the generator: net "error" when fetch or res.text() rejects,
\* status its HTTP status, raw its body.
GarbageRaw == [wf |-> FALSE, s |-> <<"o","o","p","s">>, data |-> Envelope(<<>>, TextOf("absent"))]

RateLimitRaw == [wf |-> FALSE, s |-> <<"s","l","o","w">>, data |-> Envelope(<<>>, TextOf("absent"))]

JsonRaw(data) == [wf |-> TRUE, s |-> <<>>, data |-> data]

GenResponses ==
  {[net |-> "error", status |-> 0, raw |-> NoRaw]}
    \cup [net : {"ok"}, status : {429, 500}, raw : {GarbageRaw, RateLimitRaw}]
    \cup [net : {"ok"}, status : {500}, raw : {JsonRaw(AsJsonBlock(BasePayload))}]
    \cup [net : {"ok"}, status : {200}, raw : {GarbageRaw}]
    \cup [net : {"ok"}, status : {200}, raw : { JsonRaw(d) : d \in Envelopes }]

NoGenResponse == [net |-> "none", status |-> 0, raw |-> NoRaw]

\* res.ok
ResOk(r) == r.status >= 200 /\ r.status <= 299

\* --- generator responses with their texts as strings ---

\* most content blocks a response carries
MaxBlocks == 2

Quoted(cs) == <<QuoteChar>> \o cs \o <<QuoteChar>>

\* JSON.stringify of a value
RECURSIVE StringifyValue(_)
StringifyValue(v) ==
  CASE v.k = "str" -> Quoted(v.s)
    [] v.k = "num" -> DigitsOf(v.n)
    [] v.k = "arr" ->
         <<"[">> \o JoinComma([i \in 1..Len(v.a) |-> StringifyValue(v.a[i])]) \o <<"]">>
    [] v.k = "obj" -> <<"{", "}">>
    [] OTHER -> ScalarString(v)

\* the names of the fields the payloads below carry, spelled out
FieldSpellings ==
  {<<"t","y","p","e">>, <<"t","i","t","l","e">>, <<"t","a","g","s">>, <<"o","k">>, <<"n">>}

SpellingOf(f) == CHOOSE cs \in FieldSpellings : NameOf(cs) = f

RECURSIVE FieldsInOrder(_)
FieldsInOrder(fs) ==
  IF fs = {} THEN <<>>
  ELSE LET f == CHOOSE g \in fs : TRUE IN <<f>> \o FieldsInOrder(fs \ {f})

\* JSON.stringify of an object
Stringify(o) ==
  LET fs == FieldsInOrder(DOMAIN o)
  IN  <<"{">>
        \o JoinComma([i \in 1..Len(fs) |->
                        Quoted(SpellingOf(fs[i])) \o <<":">> \o StringifyValue(o[fs[i]])])
        \o <<"}">>

PayloadA == [type |-> Str(PersonText)]

PayloadB ==
  [title |-> Str(<<"J", " ", "D">>), tags |-> Arr(<<Str(<<"a">>), Null>>), ok |-> False,
   n |-> Num(1900)]

WirePayloads == {EmptyObj, PayloadA, PayloadB}

WireBlock(ty, doc, t) == [type |-> ty, json |-> doc, text |-> t]

\* the three envelope shapes carrying one payload, the text ones serialized
WireJsonBlock(p) ==
  Envelope(<<Output(<<WireBlock("output_json", DocObj(p), NotText)>>)>>, NotText)

WireTextBlock(p) ==
  Envelope(<<Output(<<WireBlock("output_text", NoBlockJson, Text(Stringify(p)))>>)>>, NotText)

WireOutputText(p) == Envelope(<<>>, Text(Stringify(p)))

Padded(s) == <<" ">> \o s \o <<"\t", " ">>

WireBlocks ==
  {WireBlock("output_json", DocObj(EmptyObj), NotText),
   WireBlock("other", DocObj(PayloadB), NotText),
   WireBlock("output_text", NoBlockJson, Text(Stringify(PayloadA))),
   WireBlock("text", NoBlockJson, Text(Padded(Stringify(PayloadB)))),
   WireBlock("text", NoBlockJson, Text(<<"{", QuoteChar, "n", QuoteChar, ":", "}">>)),
   WireBlock("output_text", NoBlockJson, Text(<<"5">>)),
   WireBlock("other", NoBlockJson, Text(Stringify(PayloadA))),
   WireBlock("text", DocOf("num"), Text(<<" ">>))}

WireTops ==
  {NotText, Text(<<"\t">>), Text(<<"o","o","p","s">>), Text(Stringify(EmptyObj)),
   Text(Padded(Stringify(PayloadB)))}

RECURSIVE SeqsUpTo(_, _)
SeqsUpTo(S, n) ==
  IF n = 0 THEN {<<>>}
  ELSE SeqsUpTo(S, n - 1) \cup { Append(q, x) : q \in SeqsUpTo(S, n - 1), x \in S }

\* data.output: the blocks bs in two outputs, the first holding k of them
InTwoOutputs(bs, k) == <<Output(SubSeq(bs, 1, k)), Output(SubSeq(bs, k + 1, Len(bs)))>>

WireEnvelopes ==
  UNION { { Envelope(InTwoOutputs(bs, k), top) : k \in 0..Len(bs), top \in WireTops } :
            bs \in SeqsUpTo(WireBlocks, MaxBlocks) }
    \cup { WireJsonBlock(p) : p \in WirePayloads }
    \cup { WireTextBlock(p) : p \in WirePayloads }
    \cup { WireOutputText(p) : p \in WirePayloads }

NoWire == Envelope(<<>>, NotText)

\* ------------------------------------------------------------------------
\* items.js: the record store behind the editor
\* ------------------------------------------------------------------------

\* typeof v === "string" && v.trim().length > 0
isNonEmptyString(v) == v.k = "str" /\ Trim(v.s) # <<>>

\* tags.map((t) => String(t).trim()).filter(Boolean)
RECURSIVE TrimmedNonEmpty(_)
TrimmedNonEmpty(q) ==
  IF q = <<>> THEN <<>>
  ELSE IF Trim(JsString(Head(q))) = <<>> THEN TrimmedNonEmpty(Tail(q))
  ELSE <<Str(Trim(JsString(Head(q))))>> \o TrimmedNonEmpty(Tail(q))

\* normalizeTags(tags) of items.js
normalizeTags(tags) == IF tags.k # "arr" THEN Arr(<<>>) ELSE Arr(TrimmedNonEmpty(tags.a))

\* authOk that lets a request without a token pass
authOk_MissingTokenPasses(headers, required) ==
  IF ~Truthy(required) THEN TRUE
  ELSE Or(headers.lower, headers.capital) \in {Absent, required}

\* authOk(event), required being process.env.ADMIN_TOKEN
authOk(headers, required) ==
  IF ~Truthy(required) THEN TRUE
  ELSE Or(headers.lower, headers.capital) = required

\* `items/${id}.json`
ItemKey(id) == <<"i","t","e","m","s","/">> \o id \o <<".","j","s","o","n">>

\* the n-th value of randomUUID(): no two calls return the same
Uuid(n) == <<"u">> \o DigitsOf(n)

\* new Date().toISOString() at the n-th publication
IsoTime(n) == <<"T">> \o DigitsOf(n)

\* JSON.parse(event.body || "{}"): the document, or "garbage" when it throws
ParsedBody(body) ==
  IF body.k \in {"absent", "blank"} THEN TextJson(DocObj(EmptyObj))
  ELSE body

\* item.f for the parsed body
ItemField(doc, f) == IF doc.k = "obj" THEN Get(doc.o, f) ELSE Absent

\* lines 101-106: the body is an item that may be stored
HasRequiredFields(doc) ==
  /\ DocTruthy(doc)
  /\ isNonEmptyString(ItemField(doc, "type"))
  /\ isNonEmptyString(ItemField(doc, "title"))
  /\ isNonEmptyString(ItemField(doc, "href"))

\* Stored that keeps an id and a createdAt the client sent
Stored_ClientFieldsWin(doc, id, createdAt) ==
  LET o1 == SetField(Spread(doc), "tags", normalizeTags(ItemField(doc, "tags")))
      o2 == IF "id" \in DOMAIN o1 THEN o1 ELSE SetField(o1, "id", Str(id))
  IN  IF "createdAt" \in DOMAIN o2 THEN o2 ELSE SetField(o2, "createdAt", Str(createdAt))

\* lines 113-118: { ...item, id, createdAt, tags: normalizeTags(item.tags) }
Stored(doc, id, createdAt) ==
  SetField(SetField(SetField(Spread(doc), "id", Str(id)), "createdAt", Str(createdAt)),
           "tags", normalizeTags(ItemField(doc, "tags")))

\* store.setJSON(key, value)
SetJSON(blobs, key, value) ==
  [k \in (DOMAIN blobs) \cup {key} |-> IF k = key THEN value ELSE blobs[k]]

\* store.delete(key): removes the blob when there is one
Delete(blobs, key) == [k \in (DOMAIN blobs) \ {key} |-> blobs[k]]

\* a store without blobs
NoBlobs == [k \in {} |-> EmptyObj]

\* the keys of store.list({ prefix: "items/" })
Listed(blobs) ==
  { k \in DOMAIN blobs : Len(k) >= 6 /\ SubSeq(k, 1, 6) = <<"i","t","e","m","s","/">> }

\* the place of a character in the order localeCompare gives the time stamps
CharCode(c) == CHOOSE i \in 1..11 : (DigitChars \o <<"T">>)[i] = c

\* String(b.createdAt || "").localeCompare(String(a.createdAt || "")) < 0:
\* b sorts before a
Earlier(s, t) ==
  \/ Len(s) < Len(t) /\ SubSeq(t, 1, Len(s)) = s
  \/ \E i \in 1..Len(s) :
       /\ i <= Len(t)
       /\ SubSeq(s, 1, i - 1) = SubSeq(t, 1, i - 1)
       /\ CharCode(s[i]) < CharCode(t[i])

\* the items of the listing, newest first
RECURSIVE NewestFirst(_, _)
NewestFirst(blobs, keys) ==
  IF keys = {} THEN <<>>
  ELSE LET stamp(k) == JsString(Or(Get(blobs[k], "createdAt"), Str(<<>>)))
           top == CHOOSE k \in keys : \A j \in keys : ~Earlier(stamp(k), stamp(j))
       IN  <<SetField(blobs[top], "_key", Str(top))>> \o NewestFirst(blobs, keys \ {top})

\* a response of items.js: json(status, {ok, id, items}) or text(status, body)
Reply(status, ok, id, list, body) ==
  [statusCode |-> status, ok |-> ok, id |-> id, items |-> list, body |-> body]

itemsJson(status, id, list) == Reply(status, TRUE, id, list, "")

itemsText(status, body) == Reply(status, FALSE, <<>>, <<>>, body)

NoReply == Reply(0, FALSE, <<>>, <<>>, "")

\* --- the requests items.js may receive ---

\* how many items are published in a run
MaxPosts == 2

Secret == <<"s","3">>

AdminTokens == {Absent, Str(<<>>), Str(Secret)}

\* event.headers: x-admin-token as the platform passes it, lower case or not
TokenHeaders ==
  {[lower |-> Absent, capital |-> Absent],
   [lower |-> Str(Secret), capital |-> Absent],
   [lower |-> Str(<<"n","o">>), capital |-> Absent],
   [lower |-> Absent, capital |-> Str(Secret)]}

CompleteItem ==
  [f \in {"type", "title", "href"} |->
     IF f = "type" THEN Str(BookText) ELSE IF f = "title" THEN Str(TitleON) ELSE Str(WikiPage)]

\* an item that brings an id, a createdAt and tags of its own
ItemWithId ==
  [f \in {"type", "title", "href", "id", "createdAt", "tags"} |->
     CASE f = "type" -> Str(PersonText)
       [] f = "title" -> Str(TitleJD)
       [] f = "href" -> Str(WikiPage)
       [] f = "id" -> Str(<<"z">>)
       [] f = "createdAt" -> Str(IsoTime(0))
       [] f = "tags" -> Arr(<<Str(<<" ","a"," ">>), Str(<<" ">>), Num(7)>>)]

ItemBodies ==
  {TextOf("absent"), TextOf("garbage"), TextJson(DocNull), TextJson(DocOf("true")),
   TextJson(DocObj(CompleteItem)),
   TextJson(DocObj(ItemWithId)),
   TextJson(DocObj([f \in {"type", "title"} |-> CompleteItem[f]])),
   TextJson(DocObj(SetField(CompleteItem, "title", Str(<<" ">>)))),
   TextJson(DocObj(SetField(CompleteItem, "type", Num(7))))}

\* the key parameter: none, blank, a key that is issued, a key that never is
KeyParams == {Absent, Str(<<" ">>), Str(ItemKey(Uuid(1))), Str(ItemKey(<<"z">>))}

\* the id parameter: none, empty, two ids that are issued
IdParams == {Absent, Str(<<>>), Str(Uuid(1)), Str(Uuid(2))}

Request(method, headers, body, key, id) ==
  [httpMethod |-> method, headers |-> headers, body |-> body, key |-> key, id |-> id]

NoRequest == Request("none", [lower |-> Absent, capital |-> Absent], TextOf("absent"), Absent, Absent)

Requests ==
  { Request("POST", h, b, Absent, Absent) : h \in TokenHeaders, b \in ItemBodies }
    \cup { Request("DELETE", h[1], TextOf("absent"), h[2], h[3]) :
             h \in TokenHeaders \X KeyParams \X IdParams }
    \cup { Request(mt, h, TextOf("absent"), Absent, Absent) :
             mt \in {"GET", "OPTIONS", "PUT"}, h \in TokenHeaders }

\* ------------------------------------------------------------------------
\* State
\* ------------------------------------------------------------------------

VARIABLES
  event,      \* the request being handled
  pc,         \* where the handler is: "idle", "awaitGen", "awaitAll", "done"
  title,      \* const title
  type,       \* const type
  genSt,      \* the OpenAI fetch: "idle", "pending", "settled"
  genRes,     \* the response it settled with
  wikiSt,     \* wikiUrlPromise: "idle", "pending", "settled"
  wikiRes,    \* the summary-endpoint response it received
  wikiUrl,    \* the value wikiUrlPromise resolved to
  qidSt,      \* the pageprops fetch of the years chain
  qidRes,     \* the response it received
  qid,        \* const qid of the chain
  factsSt,    \* the EntityData fetch of the years chain
  factsRes,   \* the response it received
  yearsSt,    \* yearsPromise
  years,      \* the value yearsPromise resolved to
  extracted,  \* const extracted
  response,   \* the value the handler returned
  order,      \* history: the steps taken so far, in the order they were taken
  wire,       \* the argument extractStructuredJson was last called with
  result,     \* the value that call returned
  other,      \* the scope of a second invocation, suspended at an await
  cur,        \* which of the two invocations is running: 1 or 2
  store,      \* items.js: the blob store "kb-items", key -> stored object
  adminToken, \* items.js: process.env.ADMIN_TOKEN
  issued,     \* items.js: how many ids randomUUID has issued
  itemsReq,   \* items.js: the last request handled
  itemsRes,   \* items.js: the response to it
  lastSuggestQuery,       \* editor.js: let lastSuggestQuery
  latestBookSuggestions,  \* editor.js: let latestBookSuggestions
  inflight,   \* editor.js: the suggestion requests sent and not yet answered
  sent,       \* editor.js: how many suggestion requests were sent
  shown,      \* editor.js: the options of the datalist titleSuggestions
  disabled,   \* editor.js: $("autofill").disabled
  afPc,       \* editor.js: where autofillFromAI is: "idle", "fetch", "read", "finished"
  afRes,      \* editor.js: res.ok of the response autofillFromAI received
  afPath      \* editor.js: the return or throw that ended the last run

\* the state of one invocation of the handler
invocation ==
  <<event, pc, title, type, genSt, genRes, wikiSt, wikiRes, wikiUrl, qidSt, qidRes, qid,
    factsSt, factsRes, yearsSt, years, extracted, response>>

vars ==
  <<event, pc, title, type, genSt, genRes, wikiSt, wikiRes, wikiUrl, qidSt, qidRes, qid,
    factsSt, factsRes, yearsSt, years, extracted, response, order, wire, result,
    other, cur, store, adminToken, issued, itemsReq, itemsRes,
    lastSuggestQuery, latestBookSuggestions, inflight, sent, shown,
    disabled, afPc, afRes, afPath>>

\* the variables of items.js
items == <<store, adminToken, issued, itemsReq, itemsRes>>

\* the variables of editor.js: the suggestions, the autofill button
suggest == <<lastSuggestQuery, latestBookSuggestions, inflight, sent, shown>>

autofill == <<disabled, afPc, afRes, afPath>>

editor == <<lastSuggestQuery, latestBookSuggestions, inflight, sent, shown,
            disabled, afPc, afRes, afPath>>

\* the variables a single invocation of the handler never touches
beyond ==
  <<other, cur, store, adminToken, issued, itemsReq, itemsRes,
    lastSuggestQuery, latestBookSuggestions, inflight, sent, shown,
    disabled, afPc, afRes, afPath>>

\* the scope of the running invocation: the handler's constants and promises
Scope ==
  [event |-> event, pc |-> pc, title |-> title, type |-> type, genSt |-> genSt,
   genRes |-> genRes, wikiSt |-> wikiSt, wikiRes |-> wikiRes, wikiUrl |-> wikiUrl,
   qidSt |-> qidSt, qidRes |-> qidRes, qid |-> qid, factsSt |-> factsSt,
   factsRes |-> factsRes, yearsSt |-> yearsSt, years |-> years, extracted |-> extracted,
   response |-> response]

\* the scope of an invocation that has not begun
FreshScope ==
  [event |-> NoEvent, pc |-> "idle", title |-> <<>>, type |-> <<>>, genSt |-> "idle",
   genRes |-> NoGenResponse, wikiSt |-> "idle", wikiRes |-> NoWikiResponse, wikiUrl |-> Null,
   qidSt |-> "idle", qidRes |-> NoQidResponse, qid |-> Null, factsSt |-> "idle",
   factsRes |-> NoFactsResponse, yearsSt |-> "idle", years |-> NoYears,
   extracted |-> DocNull, response |-> NoResponse]

Init ==
  /\ event = NoEvent
  /\ pc = "idle"
  /\ title = <<>>
  /\ type = <<>>
  /\ genSt = "idle"
  /\ genRes = NoGenResponse
  /\ wikiSt = "idle"
  /\ wikiRes = NoWikiResponse
  /\ wikiUrl = Null
  /\ qidSt = "idle"
  /\ qidRes = NoQidResponse
  /\ qid = Null
  /\ factsSt = "idle"
  /\ factsRes = NoFactsResponse
  /\ yearsSt = "idle"
  /\ years = NoYears
  /\ extracted = DocNull
  /\ response = NoResponse
  /\ order = <<>>
  /\ wire = NoWire
  /\ result = DocNull
  /\ other = FreshScope
  /\ cur = 1
  /\ store = NoBlobs
  /\ adminToken = Absent
  /\ issued = 0
  /\ itemsReq = NoRequest
  /\ itemsRes = NoReply
  /\ lastSuggestQuery = <<>>
  /\ latestBookSuggestions = <<>>
  /\ inflight = {}
  /\ sent = 0
  /\ shown = <<>>
  /\ disabled = FALSE
  /\ afPc = "idle"
  /\ afRes = FALSE
  /\ afPath = "none"

\* Validate without the title test of line 226
Validate_NoTitleTest(ev) ==
  IF ev.httpMethod = "OPTIONS" THEN Preflight
  ELSE IF ev.httpMethod # "POST" THEN text(405, "Method Not Allowed", 0)
  ELSE IF ~ev.hasKey THEN text(500, "OPENAI_API_KEY missing", 0)
  ELSE IF ~ev.body.wf THEN text(400, "Invalid JSON body", 0)
  ELSE NoResponse

\* lines 203-226: the response of a request rejected by validation, or
\* NoResponse when the request passes
Validate(ev) ==
  IF ev.httpMethod = "OPTIONS" THEN Preflight
  ELSE IF ev.httpMethod # "POST" THEN text(405, "Method Not Allowed", 0)
  ELSE IF ~ev.hasKey THEN text(500, "OPENAI_API_KEY missing", 0)
  ELSE IF ~ev.body.wf THEN text(400, "Invalid JSON body", 0)
  ELSE IF RequestTitle(ev.body) = <<>> THEN text(400, "Missing title", 0)
  ELSE NoResponse

\* RunsYearsChain comparing without regard to case
RunsYearsChain_AnyCase(ty) == ToLowerCase(ty) = PersonText

\* the chain of yearsPromise runs only for this type (line 299)
RunsYearsChain(ty) == ty = PersonText

\* lines 202-314: the handler up to its first await.  A rejected request is
\* answered at once; otherwise the two lookups and the generator call are sent.
Invoke(ev) ==
  /\ pc = "idle"
  /\ event' = ev
  /\ IF Validate(ev) # NoResponse
       THEN /\ response' = Validate(ev)
            /\ pc' = "done"
            /\ UNCHANGED <<title, type, genSt, wikiSt, qidSt, yearsSt>>
       ELSE /\ title' = RequestTitle(ev.body)
            /\ type' = RequestType(ev.body)
            /\ wikiSt' = "pending"
            /\ IF RunsYearsChain(RequestType(ev.body))
                 THEN qidSt' = "pending" /\ yearsSt' = "pending"
                 ELSE qidSt' = "idle" /\ yearsSt' = "settled"
            /\ genSt' = "pending"
            /\ pc' = "awaitGen"
            /\ UNCHANGED response
  /\ UNCHANGED <<genRes, wikiRes, wikiUrl, qidRes, qid, factsSt, factsRes, years, extracted>>

\* the summary endpoint answers (or the fetch fails): wikiUrlPromise resolves
WikiSettle(r) ==
  /\ wikiSt = "pending"
  /\ wikiSt' = "settled"
  /\ wikiRes' = r
  /\ wikiUrl' = wikipediaUrlForTitle(r)
  /\ UNCHANGED <<event, pc, title, type, genSt, genRes, qidSt, qidRes, qid, factsSt,
                 factsRes, yearsSt, years, extracted, response>>

\* QidSettle sending the EntityData request whatever the QID
QidSettle_AlwaysFetches(r) ==
  /\ qidSt = "pending"
  /\ qidSt' = "settled"
  /\ qidRes' = r
  /\ qid' = wikipediaQidForTitle(r)
  /\ factsSt' = "pending"
  /\ UNCHANGED <<event, pc, title, type, genSt, genRes, wikiSt, wikiRes, wikiUrl,
                 factsRes, yearsSt, years, extracted, response>>

\* lines 301-303: the pageprops query answers; with a QID the EntityData
\* request is sent, without one yearsPromise resolves to null
QidSettle(r) ==
  /\ qidSt = "pending"
  /\ qidSt' = "settled"
  /\ qidRes' = r
  /\ qid' = wikipediaQidForTitle(r)
  /\ IF Truthy(wikipediaQidForTitle(r))
       THEN factsSt' = "pending" /\ UNCHANGED <<yearsSt, years>>
       ELSE yearsSt' = "settled" /\ years' = NoYears /\ UNCHANGED factsSt
  /\ UNCHANGED <<event, pc, title, type, genSt, genRes, wikiSt, wikiRes, wikiUrl,
                 factsRes, extracted, response>>

\* EntityData answers: yearsPromise resolves to the bundle or to null
FactsSettle(r) ==
  /\ factsSt = "pending"
  /\ factsSt' = "settled"
  /\ factsRes' = r
  /\ years' = wikidataYearsForQid(r)
  /\ yearsSt' = "settled"
  /\ UNCHANGED <<event, pc, title, type, genSt, genRes, wikiSt, wikiRes, wikiUrl,
                 qidSt, qidRes, qid, extracted, response>>

\* GeneratorFailure without the test of res.ok
GeneratorFailure_NoStatusTest(r) ==
  IF r.net = "error" THEN text(500, "Function error", 0)
  ELSE IF ~r.raw.wf THEN text(500, "Function error", 0)
  ELSE IF ~DocTruthy(extractStructuredJson(r.raw.data))
    THEN Quoting(text(500, "Could not extract structured JSON", 0), r.raw)
  ELSE NoResponse

\* GeneratorFailure whose message for a non-2xx status leaves the body out
GeneratorFailure_NoBody(r) ==
  IF r.net = "error" THEN text(500, "Function error", 0)
  ELSE IF ~ResOk(r) THEN text(500, "OpenAI error", r.status)
  ELSE IF ~r.raw.wf THEN text(500, "Function error", 0)
  ELSE IF ~DocTruthy(extractStructuredJson(r.raw.data))
    THEN Quoting(text(500, "Could not extract structured JSON", 0), r.raw)
  ELSE NoResponse

\* lines 307-323 and 371-373: the outcome of the generator call, NoResponse
\* when the handler goes on to Promise.all
GeneratorFailure(r) ==
  IF r.net = "error" THEN text(500, "Function error", 0)
  ELSE IF ~ResOk(r) THEN Quoting(text(500, "OpenAI error", r.status), r.raw)
  ELSE IF ~r.raw.wf THEN text(500, "Function error", 0)
  ELSE IF ~DocTruthy(extractStructuredJson(r.raw.data))
    THEN Quoting(text(500, "Could not extract structured JSON", 0), r.raw)
  ELSE NoResponse

\* lines 307-323: the generator call (fetch, then res.text()) settles and the
\* handler resumes: it returns the failure, or goes on to Promise.all
GeneratorSettles(r) ==
  /\ pc = "awaitGen"
  /\ genSt = "pending"
  /\ genSt' = "settled"
  /\ genRes' = r
  /\ IF GeneratorFailure(r) # NoResponse
       THEN /\ response' = GeneratorFailure(r)
            /\ pc' = "done"
            /\ UNCHANGED extracted
       ELSE /\ extracted' = extractStructuredJson(r.raw.data)
            /\ pc' = "awaitAll"
            /\ UNCHANGED response
  /\ UNCHANGED <<event, title, type, wikiSt, wikiRes, wikiUrl, qidSt, qidRes, qid,
                 factsSt, factsRes, yearsSt, years>>

\* AllSettled awaiting wikiUrlPromise alone
AllSettled_WikiOnly == wikiSt = "settled"

\* AllSettled awaiting yearsPromise alone
AllSettled_YearsOnly == yearsSt = "settled"

\* AllSettled awaiting the EntityData lookup itself, launched or not
AllSettled_NeedsFacts == wikiSt = "settled" /\ factsSt = "settled"

\* Promise.all([wikiUrlPromise, yearsPromise]) has resolved
AllSettled == wikiSt = "settled" /\ yearsSt = "settled"

\* Promise.all([wikiUrlPromise, yearsPromise]) has rejected
AnyRejected ==
  \/ wikiSt = "settled" /\ wikiUrl = Rejected
  \/ yearsSt = "settled" /\ years = RejectedYears

\* lines 325-373: merge, normalise and return the record; a rejection of
\* Promise.all or a TypeError of the merge is caught and answered with the
\* function error
MergeAndReturn ==
  /\ pc = "awaitAll"
  /\ AllSettled \/ AnyRejected
  /\ response' = IF AnyRejected \/ MergeThrows(Spread(extracted))
                   THEN text(500, "Function error", 0)
                   ELSE json(200, BuildRecord(extracted, type, title, wikiUrl, years))
  /\ pc' = "done"
  /\ UNCHANGED <<event, title, type, genSt, genRes, wikiSt, wikiRes, wikiUrl, qidSt, qidRes,
                 qid, factsSt, factsRes, yearsSt, years, extracted>>

Next ==
  \/ \E ev \in Events : Invoke(ev) /\ UNCHANGED <<order, wire, result>> /\ UNCHANGED beyond
  \/ \E r \in WikiResponses : WikiSettle(r) /\ UNCHANGED <<order, wire, result>> /\ UNCHANGED beyond
  \/ \E r \in QidResponses : QidSettle(r) /\ UNCHANGED <<order, wire, result>> /\ UNCHANGED beyond
  \/ \E r \in FactsResponses : FactsSettle(r) /\ UNCHANGED <<order, wire, result>> /\ UNCHANGED beyond
  \/ \E r \in GenResponses : GeneratorSettles(r) /\ UNCHANGED <<order, wire, result>> /\ UNCHANGED beyond
  \/ MergeAndReturn /\ UNCHANGED <<order, wire, result>> /\ UNCHANGED beyond

Spec == Init /\ [][Next]_vars

\* --- the invocation with the order of its steps recorded ---

\* the generator's answers the recorded runs draw from: one of each outcome
OrderedGenResponses ==
  {[net |-> "error", status |-> 0, raw |-> NoRaw],
   [net |-> "ok", status |-> 429, raw |-> RateLimitRaw],
   [net |-> "ok", status |-> 200, raw |-> GarbageRaw],
   [net |-> "ok", status |-> 200, raw |-> JsonRaw(Envelope(<<>>, TextOf("garbage")))],
   [net |-> "ok", status |-> 200, raw |-> JsonRaw(AsJsonBlock(BasePayload))],
   [net |-> "ok", status |-> 200,
    raw |-> JsonRaw(AsJsonBlock([BasePayload EXCEPT !.type = Unprintable]))],
   [net |-> "ok", status |-> 200,
    raw |-> JsonRaw(AsTextBlock(MkPayload(Str(PersonText), Str(GenUrl), Str(GoodImage),
                                          Str(GoodSummary), Arr(GoodTags), Num(1900),
                                          Num(2000), Absent)))]}

Step(name) == order' = Append(order, name) /\ UNCHANGED <<wire, result>> /\ UNCHANGED beyond

NextOrdered ==
  \/ \E ev \in Events : Invoke(ev) /\ Step("invoke")
  \/ \E r \in WikiResponses : WikiSettle(r) /\ Step("wiki")
  \/ \E r \in QidResponses : QidSettle(r) /\ Step("qid")
  \/ \E r \in FactsResponses : FactsSettle(r) /\ Step("facts")
  \/ \E r \in OrderedGenResponses : GeneratorSettles(r) /\ Step("generator")
  \/ MergeAndReturn /\ Step("merge")

SpecOrdered == Init /\ [][NextOrdered]_vars

\* --- the invocation when every call that was launched settles ---

WikiAnswers == \E r \in WikiResponses : WikiSettle(r) /\ Step("wiki")

QidAnswers == \E r \in QidResponses : QidSettle(r) /\ Step("qid")

FactsAnswers == \E r \in FactsResponses : FactsSettle(r) /\ Step("facts")

GeneratorAnswers == \E r \in OrderedGenResponses : GeneratorSettles(r) /\ Step("generator")

\* a fetch that is pending settles
Answers == WikiAnswers \/ QidAnswers \/ FactsAnswers \/ GeneratorAnswers

\* the step of MergeAndReturn, told by the program counter: it is enabled
\* exactly when MergeAndReturn is, and the steps that take pc from the wait
\* on Promise.all to the end are those of MergeAndReturn
Resumes == pc = "awaitAll" /\ (AllSettled \/ AnyRejected) /\ pc' = "done"

\* every call that was launched settles, and the event loop runs the
\* continuation of the await of line 325 once its promise has settled
Settling == WF_vars(Answers) /\ WF_pc(Resumes)

SpecSettling == Init /\ [][NextOrdered]_vars /\ Settling

\* --- extractStructuredJson on its own ---

\* --- two invocations of the handler on one event loop ---

\* the event loop resumes an invocation with the scope s it was suspended with
Resume(s) ==
  /\ event' = s.event
  /\ pc' = s.pc
  /\ title' = s.title
  /\ type' = s.type
  /\ genSt' = s.genSt
  /\ genRes' = s.genRes
  /\ wikiSt' = s.wikiSt
  /\ wikiRes' = s.wikiRes
  /\ wikiUrl' = s.wikiUrl
  /\ qidSt' = s.qidSt
  /\ qidRes' = s.qidRes
  /\ qid' = s.qid
  /\ factsSt' = s.factsSt
  /\ factsRes' = s.factsRes
  /\ yearsSt' = s.yearsSt
  /\ years' = s.years
  /\ extracted' = s.extracted
  /\ response' = s.response

\* Switch with title and type kept in the module instead of the handler's scope
Switch_ModuleLevelTitle ==
  /\ other' = Scope
  /\ Resume([other EXCEPT !.title = title, !.type = type])
  /\ cur' = 3 - cur
  /\ UNCHANGED <<order, wire, result>>
  /\ UNCHANGED items
  /\ UNCHANGED editor

\* the event loop turns from one invocation to the other: every binding of
\* the handler (lines 210-370) is local to its call, so the one suspended
\* keeps its own and the one resumed finds its own
Switch ==
  /\ other' = Scope
  /\ Resume(other)
  /\ cur' = 3 - cur
  /\ UNCHANGED <<order, wire, result>>
  /\ UNCHANGED items
  /\ UNCHANGED editor

\* the requests and answers the two invocations draw from
PairEvents ==
  { e \in Events : /\ e.httpMethod = "POST" /\ e.hasKey /\ e.body.wf
                   /\ e.body.type \in {Str(<<" ">> \o PersonText), Str(BookText), Str(PersonText)} }

PairWikiResponses ==
  { r \in WikiResponses : r.net = "error" \/ (r.ok /\ r.wf /\ r.page = Str(WikiPage)) }

PairQidResponses ==
  { r \in QidResponses : r.net = "error" \/ Truthy(wikipediaQidForTitle(r)) }

PairFactsResponses ==
  { r \in FactsResponses : r.net = "error" \/ (r.entity /\ r.birth = Str(<<"+","1","9","5","0","-","0","1">>) /\ r.death = Absent) }

PairGenResponses ==
  { r \in OrderedGenResponses : r.net = "error" \/ GeneratorFailure(r) = NoResponse }

Alone == UNCHANGED <<other, cur, order, wire, result>> /\ UNCHANGED items /\ UNCHANGED editor

NextPair ==
  \/ \E ev \in PairEvents : Invoke(ev) /\ Alone
  \/ \E r \in PairWikiResponses : WikiSettle(r) /\ Alone
  \/ \E r \in PairQidResponses : QidSettle(r) /\ Alone
  \/ \E r \in PairFactsResponses : FactsSettle(r) /\ Alone
  \/ \E r \in PairGenResponses : GeneratorSettles(r) /\ Alone
  \/ MergeAndReturn /\ Alone
  \/ Switch

SpecPair == Init /\ [][NextPair]_vars

\* a call of extractStructuredJson(data)
Extract(data) ==
  /\ wire = NoWire
  /\ data # NoWire
  /\ wire' = data
  /\ result' = extractFromWire(data)
  /\ UNCHANGED invocation
  /\ UNCHANGED order
  /\ UNCHANGED beyond

NextExtract == \E data \in WireEnvelopes : Extract(data)

SpecExtract == Init /\ [][NextExtract]_vars

\* --- items.js ---

\* the site is deployed with ADMIN_TOKEN set to tok, or not set
Configure(tok) ==
  /\ adminToken' = tok
  /\ UNCHANGED <<store, issued, itemsReq, itemsRes>>
  /\ UNCHANGED <<invocation, order, wire, result, other, cur>> /\ UNCHANGED editor

\* the handler of items.js answers rsp and leaves the store as it is
Responds(r, rsp) ==
  /\ itemsReq' = r
  /\ itemsRes' = rsp
  /\ UNCHANGED <<store, issued, adminToken>>
  /\ UNCHANGED <<invocation, order, wire, result, other, cur>> /\ UNCHANGED editor

\* lines 46-52 and 148: OPTIONS, and the methods the handler does not know
HandleOther(r) ==
  /\ r.httpMethod \notin {"GET", "POST", "DELETE"}
  /\ Responds(r, IF r.httpMethod = "OPTIONS" THEN itemsText(204, "")
                ELSE itemsText(405, "Method Not Allowed"))

\* lines 59-86: GET lists the items, newest first
HandleGet(r) ==
  /\ r.httpMethod = "GET"
  /\ Responds(r, itemsJson(200, <<>>, NewestFirst(store, Listed(store))))

\* lines 91-123: POST publishes an item
HandlePost(r) ==
  /\ r.httpMethod = "POST"
  /\ LET parsed == ParsedBody(r.body)
     IN  IF ~authOk(r.headers, adminToken) THEN Responds(r, itemsText(401, "Unauthorized"))
         ELSE IF parsed.k = "garbage" THEN Responds(r, itemsText(400, "Invalid JSON"))
         ELSE IF ~HasRequiredFields(parsed.doc)
           THEN Responds(r, itemsText(400, "Missing required fields (type,title,href)"))
         ELSE /\ issued < MaxPosts
              /\ issued' = issued + 1
              /\ store' = SetJSON(store, ItemKey(Uuid(issued + 1)),
                                  Stored(parsed.doc, Uuid(issued + 1), IsoTime(issued + 1)))
              /\ itemsReq' = r
              /\ itemsRes' = itemsJson(200, Uuid(issued + 1), <<>>)
              /\ UNCHANGED adminToken
              /\ UNCHANGED <<invocation, order, wire, result, other, cur>> /\ UNCHANGED editor

\* the key an authorized DELETE removes, none when it names neither key nor id
DeleteTarget_IdFirst(r) ==
  IF isNonEmptyString(r.id) THEN Str(ItemKey(r.id.s))
  ELSE IF isNonEmptyString(r.key) THEN r.key
  ELSE Absent

\* lines 131-145: the key parameter when it is a non-empty string, else the
\* key made of the id parameter
DeleteTarget(r) ==
  IF isNonEmptyString(r.key) THEN r.key
  ELSE IF isNonEmptyString(r.id) THEN Str(ItemKey(r.id.s))
  ELSE Absent

\* lines 128-146: DELETE removes an item by key or by id
HandleDelete(r) ==
  /\ r.httpMethod = "DELETE"
  /\ IF ~authOk(r.headers, adminToken) THEN Responds(r, itemsText(401, "Unauthorized"))
     ELSE IF DeleteTarget(r) = Absent THEN Responds(r, itemsText(400, "Missing key or id"))
     ELSE /\ store' = Delete(store, DeleteTarget(r).s)
          /\ itemsReq' = r
          /\ itemsRes' = itemsJson(200, <<>>, <<>>)
          /\ UNCHANGED <<issued, adminToken>>
          /\ UNCHANGED <<invocation, order, wire, result, other, cur>> /\ UNCHANGED editor

NextItems ==
  \/ \E tok \in AdminTokens : Configure(tok)
  \/ \E r \in Requests : HandleOther(r)
  \/ \E r \in Requests : HandleGet(r)
  \/ \E r \in Requests : HandlePost(r)
  \/ \E r \in Requests : HandleDelete(r)

SpecItems == Init /\ [][NextItems]_vars

\* --- editor.js: the live suggestions and the autofill button ---

\* how many suggestion requests are sent in a run
MaxRequests == 3

BooksText == <<"b","o","o","k","s">>

\* what the type select and the title field may hold
TypeValues == {BooksText, <<"p","e","o","p","l","e">>}

TitleValues == {<<"m">>, <<"m","a">>, <<"M","a"," ">>, <<"m","a","r">>}

\* getValue(id): the value of the field, trimmed
getValue(raw) == Trim(raw)

\* the suggestions the worker has for the query q: one, titled q
SuggestionsFor(q) == <<q>>

\* how a suggestion request may end: an array of suggestions, a 200 without
\* an array, a status that is not 2xx, a fetch that rejects
SuggestOutcomes == {"ok", "notArray", "httpError", "rejected"}

\* fetchBookSuggestionsFromWorker(q) for a fetch that did not reject
fetchBookSuggestionsFromWorker(q, out) ==
  IF out = "httpError" THEN [ok |-> FALSE, suggestions |-> <<>>]
  ELSE IF out = "ok" THEN [ok |-> TRUE, suggestions |-> SuggestionsFor(q)]
  ELSE [ok |-> TRUE, suggestions |-> <<>>]

\* lines 712-716: one option for each of the first ten suggestions
Options(list, suggestions) == list \o Slice(suggestions, 10)

\* line 697: q.toLowerCase() !== lastSuggestQuery.toLowerCase()
IsNewQuery(q) == ToLowerCase(q) # ToLowerCase(lastSuggestQuery)

\* lines 686-700 and 712-716: the title changes; the listener runs to its
\* await, or to its end when it sends no request
TitleInput(ty, raw) ==
  LET q == Trim(getValue(raw))
  IN  /\ IF getValue(ty) # BooksText
           THEN UNCHANGED suggest
         ELSE IF q = <<>> \/ Len(q) < 2
           THEN shown' = <<>> /\ UNCHANGED <<lastSuggestQuery, latestBookSuggestions, inflight, sent>>
         ELSE IF IsNewQuery(q)
           THEN /\ sent < MaxRequests
                /\ lastSuggestQuery' = q
                /\ sent' = sent + 1
                /\ inflight' = inflight \cup {[n |-> sent + 1, q |-> q]}
                /\ shown' = <<>>
                /\ UNCHANGED latestBookSuggestions
         ELSE /\ shown' = Options(<<>>, latestBookSuggestions)
              /\ UNCHANGED <<lastSuggestQuery, latestBookSuggestions, inflight, sent>>
      /\ UNCHANGED autofill
      /\ UNCHANGED <<invocation, order, wire, result, other, cur>>
      /\ UNCHANGED items

\* lines 700-716: the request rq is answered and its listener resumes
SuggestSettles(rq, out) ==
  /\ rq \in inflight
  /\ inflight' = inflight \ {rq}
  /\ IF out = "rejected"
       THEN UNCHANGED <<latestBookSuggestions, shown>>
     ELSE IF ~fetchBookSuggestionsFromWorker(rq.q, out).ok
       THEN latestBookSuggestions' = <<>> /\ UNCHANGED shown
     ELSE /\ latestBookSuggestions' = fetchBookSuggestionsFromWorker(rq.q, out).suggestions
          /\ shown' = Options(shown, fetchBookSuggestionsFromWorker(rq.q, out).suggestions)
  /\ UNCHANGED <<lastSuggestQuery, sent>>
  /\ UNCHANGED autofill
  /\ UNCHANGED <<invocation, order, wire, result, other, cur>>
  /\ UNCHANGED items

\* lines 425-427 and 627-628: an item was published or deleted
ResetSuggestions ==
  /\ lastSuggestQuery' = <<>>
  /\ latestBookSuggestions' = <<>>
  /\ UNCHANGED <<inflight, sent, shown>>
  /\ UNCHANGED autofill
  /\ UNCHANGED <<invocation, order, wire, result, other, cur>>
  /\ UNCHANGED items

\* a run of autofillFromAI ends by the return or the throw named path
Ends(path) == afPc' = "finished" /\ afPath' = path

\* lines 642-649: the click listener of the autofill button, and
\* autofillFromAI (268-286) to its first await; a disabled button gets no click
ClickAutofill(raw) ==
  /\ ~disabled
  /\ afPc \in {"idle", "finished"}
  /\ IF getValue(raw) = <<>>
       THEN Ends("noTitle") /\ UNCHANGED <<disabled, afRes>>
       ELSE disabled' = TRUE /\ afPc' = "fetch" /\ afPath' = "none" /\ UNCHANGED afRes
  /\ UNCHANGED suggest
  /\ UNCHANGED <<invocation, order, wire, result, other, cur>>
  /\ UNCHANGED items

\* lines 284-297: the fetch rejects (caught at 291), or answers with res
AutofillFetchSettles(out) ==
  /\ afPc = "fetch"
  /\ IF out = "rejected"
       THEN disabled' = FALSE /\ Ends("networkError") /\ UNCHANGED afRes
       ELSE afRes' = (out = "ok") /\ afPc' = "read" /\ UNCHANGED <<disabled, afPath>>
  /\ UNCHANGED suggest
  /\ UNCHANGED <<invocation, order, wire, result, other, cur>>
  /\ UNCHANGED items

\* the catch of the click listener that leaves the button as it is
ListenerCatch_LeavesButton == UNCHANGED disabled

\* lines 643-648: the catch of the click listener, run when autofillFromAI
\* rejects
ListenerCatch == disabled' = FALSE

\* what res.text() may give: a rejection, text that is not JSON, JSON null,
\* an object, an object with a field that String() cannot print
BodyOutcomes == {"rejected", "garbage", "null", "object", "unprintable"}

\* lines 297-367: safeReadJson(res) settles and autofillFromAI runs to its end
AutofillReadSettles(out) ==
  /\ afPc = "read"
  /\ IF out = "rejected" THEN ListenerCatch /\ Ends("readError")
     ELSE IF ~afRes THEN disabled' = FALSE /\ Ends("httpError")
     ELSE IF out \in {"garbage", "null"} THEN disabled' = FALSE /\ Ends("invalid")
     ELSE IF out = "unprintable" THEN ListenerCatch /\ Ends("threw")
     ELSE disabled' = FALSE /\ Ends("filled")
  /\ UNCHANGED afRes
  /\ UNCHANGED suggest
  /\ UNCHANGED <<invocation, order, wire, result, other, cur>>
  /\ UNCHANGED items

NextEditor ==
  \/ \E ty \in TypeValues, raw \in TitleValues : TitleInput(ty, raw)
  \/ \E rq \in inflight, out \in SuggestOutcomes : SuggestSettles(rq, out)
  \/ ResetSuggestions
  \/ \E raw \in TitleValues \cup {<<" ">>} : ClickAutofill(raw)
  \/ \E out \in {"rejected", "ok", "httpError"} : AutofillFetchSettles(out)
  \/ \E out \in BodyOutcomes : AutofillReadSettles(out)

SpecEditor == Init /\ [][NextEditor]_vars

\* ------------------------------------------------------------------------
\* Properties
\* ------------------------------------------------------------------------

\* the invocation has returned a 200 record
ReturnedRecord == pc = "done" /\ response.statusCode = 200

\* the invocation has returned a failure that carries no record
ReturnedFailure ==
  /\ pc = "done"
  /\ response.statusCode = 500
  /\ response.ctype = "text"
  /\ response.obj = EmptyObj

\* the record returned
rec == response.obj

\* the object the generator returned, as the handler spreads it
generated == Spread(extracted)

RequiredFields == {"type", "title", "href", "image", "summary", "tags"}

\* a field value that is present and not empty
NonEmptyValue(v) ==
  \/ v.k = "str" /\ v.s # <<>>
  \/ v.k = "arr" /\ v.a # <<>>

\* C1: a POST with a non-empty title and a configured key that completes
\* returns either a 200 JSON record whose type, title, href, image, summary
\* and tags are all present and non-empty, or a 500 failure without a record.
C1_CompleteRecordOrFailure ==
  (pc = "done" /\ Validate(event) = NoResponse) =>
    \/ /\ response.statusCode = 200
       /\ response.ctype = "json"
       /\ \A f \in RequiredFields : f \in DOMAIN rec /\ NonEmptyValue(rec[f])
    \/ ReturnedFailure

\* the generator call failed, or its response holds no extractable JSON
GeneratorFailed(r) ==
  \/ r.net = "error"
  \/ r.status < 200
  \/ r.status > 299
  \/ ~r.raw.wf
  \/ extractStructuredJson(r.raw.data) = DocNull

\* C2: once the generator call has failed (transport error, non-2xx status)
\* or yielded no extractable JSON, the invocation has ended in a failure that
\* carries no record, in whatever state the source resolvers are.
C2_GeneratorFailureIsFatal ==
  (genSt = "settled" /\ GeneratorFailed(genRes)) => ReturnedFailure

\* C2 witness: the generator answered 500 and the failure was returned although
\* both resolvers had already succeeded
C2_Witness ==
  /\ ReturnedFailure
  /\ genRes.net = "ok" /\ genRes.status = 500
  /\ wikiSt = "settled" /\ wikiUrl = Str(WikiPage)
  /\ yearsSt = "settled" /\ ~years.nil

\* a year of the record, a record without the field read as null
RecordYear(f) == IF f \in DOMAIN rec THEN rec[f] ELSE Null

\* the person request obtained a bundle from the structured-facts resolver
PersonWithBundle == ReturnedRecord /\ type = PersonText /\ ~years.nil

\* C3 as stated: with a bundle, birthYear and deathYear of the record each
\* equal the bundle's value (an integer, or null when the bundle has none),
\* whatever the generator returned.
C3_BundleOverridesBothYears ==
  PersonWithBundle =>
    /\ RecordYear("birthYear") = years.birthYear
    /\ RecordYear("deathYear") = years.deathYear

\* C3 amended: with a bundle, deathYear of the record equals the bundle's
\* value (an integer or null); birthYear equals the bundle's value when that
\* is an integer, and is left as the generator returned it (or absent) when
\* the bundle has no birth year.
C3_BundleOverridesYears ==
  PersonWithBundle =>
    /\ Get(rec, "deathYear") = years.deathYear
    /\ years.birthYear.k = "num" => Get(rec, "birthYear") = years.birthYear
    /\ years.birthYear.k # "num" => Get(rec, "birthYear") = Get(generated, "birthYear")

\* C3 witness: the bundle says 1950 and alive, the generator said 1900 and
\* 2000, and the record says 1950 and null
C3_Witness ==
  /\ PersonWithBundle
  /\ years = Bundle(Num(1950), Null)
  /\ Get(generated, "birthYear") = Num(1900)
  /\ Get(generated, "deathYear") = Num(2000)
  /\ rec["birthYear"] = Num(1950)
  /\ rec["deathYear"] = Null

\* C4: href of the record is the URL the summary-endpoint resolver returned
\* for the response it received, or "kein Wiki" when it returned null; it is
\* never the href the generator returned.
C4_HrefFromResolverOrSentinel ==
  ReturnedRecord =>
    LET url == wikipediaUrlForTitle(wikiRes)
    IN  /\ rec["href"] = IF url.k = "str" THEN url ELSE Str(NoWikiText)
        /\ rec["href"] # Str(GenUrl)

\* C4 witness: the generator returned an href, the resolver found no page and
\* the record carries the sentinel
C4_Witness ==
  /\ ReturnedRecord
  /\ Get(generated, "href") = Str(GenUrl)
  /\ wikiUrl = Null
  /\ rec["href"] = Str(NoWikiText)

\* a lookup failed: transport error, non-2xx response or malformed payload
LookupFailed(r) == r.net = "error" \/ (r.net = "ok" /\ (~r.ok \/ ~r.wf))

\* the generator call succeeded with an extractable object
GeneratorSucceeded ==
  /\ genSt = "settled"
  /\ genRes.net = "ok"
  /\ genRes.status = 200
  /\ genRes.raw.wf
  /\ extractStructuredJson(genRes.raw.data).k = "obj"

\* C5: when the generator call succeeded with an extractable payload, no
\* failure of a source resolver leads to a failure response: a completed
\* invocation returned a 200 record, with the sentinel href when the summary
\* lookup failed and the generator's own years (no override) when the
\* cross-reference or the structured-facts lookup failed.
C5_ResolverFailuresAbsorbed ==
  (GeneratorSucceeded /\ pc = "done") =>
    /\ ReturnedRecord
    /\ LookupFailed(wikiRes) => rec["href"] = Str(NoWikiText)
    /\ (LookupFailed(qidRes) \/ LookupFailed(factsRes)) =>
         /\ Get(rec, "birthYear") = Get(generated, "birthYear")
         /\ Get(rec, "deathYear") = Get(generated, "deathYear")

\* C5 witness: a record was returned although the summary lookup and the
\* structured-facts lookup both failed
C5_Witness ==
  /\ ReturnedRecord
  /\ LookupFailed(wikiRes)
  /\ LookupFailed(factsRes)
  /\ Get(generated, "deathYear") = Num(2000)

\* no element occurs twice in the sequence
NoDuplicates(q) == \A i, j \in DOMAIN q : q[i] = q[j] => i = j

\* C6: tags of the record is a list of 2 to 6 entries without duplicates,
\* whatever tags value the generator returned; the entries that were not
\* among the generator's cleaned tags come from the fallback list.
C6_TagCountAndUniqueness ==
  ReturnedRecord =>
    LET tags == rec["tags"]
        given == IF Get(generated, "tags").k = "arr"
                   THEN { cleanTag(t) : t \in Range(Get(generated, "tags").a) }
                   ELSE {}
    IN  /\ tags.k = "arr"
        /\ Len(tags.a) >= 2
        /\ Len(tags.a) <= 6
        /\ NoDuplicates(tags.a)
        /\ \A t \in Range(tags.a) : t.k = "str" /\ (t.s \in given \/ t.s \in Range(PadTags))

\* C6 witness: the single tag "Space Settlement" cleans to the first
\* fallback tag, and the padding adds the second one only
C6_Witness ==
  /\ ReturnedRecord
  /\ Get(generated, "tags") = Arr(<< Str(<<"S","p","a","c","e"," ","S","e","t","t","l","e","m","e","n","t">>) >>)
  /\ rec["tags"].a = <<Str(PadTags[1]), Str(PadTags[2])>>

\* C7: every tag of the record matches the tag pattern of the schema.
C7_TagsMatchPattern ==
  ReturnedRecord => \A t \in Range(rec["tags"].a) : t.k = "str" /\ MatchesTagPattern(t.s)

\* C8: summary of the record has at least 20 characters; it is the sentinel
\* when the generator's summary is missing or, trimmed, shorter than 20
\* characters, and the trimmed generator summary otherwise.
C8_SummaryMinimum ==
  ReturnedRecord =>
    LET given == Get(generated, "summary")
        summary == rec["summary"]
    IN  /\ summary.k = "str"
        /\ Len(summary.s) >= 20
        /\ \E i \in DOMAIN summary.s : ~IsSpace(summary.s[i])
        /\ given.k \in {"absent", "null"} => summary.s = SummarySentinel
        /\ given.k = "str" =>
             summary.s = IF Len(Trim(given.s)) < 20 THEN SummarySentinel ELSE Trim(given.s)

\* C8 witness: a summary of 19 characters between spaces was replaced by the
\* sentinel
C8_Witness ==
  /\ ReturnedRecord
  /\ Get(generated, "summary") = Str(<<" ">> \o Rep("x", 19) \o <<" ", "\t">>)
  /\ rec["summary"].s = SummarySentinel

\* C9: image of the record matches the image pattern of the schema, whether
\* the generator supplied it or it was derived from the title.
C9_ImageMatchesPattern ==
  ReturnedRecord => rec["image"].k = "str" /\ MatchesImagePattern(rec["image"].s)

SchemaFields == {"type", "title", "href", "image", "summary", "tags", "birthYear", "deathYear"}

\* C10: the record holds only fields of the declared schema.
C10_OnlySchemaFields ==
  ReturnedRecord => DOMAIN rec \subseteq SchemaFields

\* --- the extractor ---

\* the content blocks of the argument of the call, in order
wireBlocks == AllBlocks(wire.output)

\* shape (a): the block carries a JSON object
CarriesObject(c) == IsJsObject(c.json)

\* the text is a string that parses as JSON
TextParses(t) == TextRead(t).k = "json"

\* shape (b): a text block whose string parses as JSON
HoldsJsonText(c) == c.type \in {"output_text", "text"} /\ TextParses(c.text)

First(S) == CHOOSE i \in S : \A j \in S : i <= j

\* C11: extractStructuredJson returns the object of the first block of
\* data.output that carries one, wherever that block stands; when no block
\* carries an object, the parsed text of the first text block whose string
\* parses, the text blocks that do not parse being passed over; when there
\* is none either, the parsed top-level output_text; and null otherwise.
C11_ShapePriority ==
  wire # NoWire =>
    LET J == { i \in DOMAIN wireBlocks : CarriesObject(wireBlocks[i]) }
        T == { i \in DOMAIN wireBlocks : HoldsJsonText(wireBlocks[i]) }
    IN  result = IF J # {} THEN wireBlocks[First(J)].json
                 ELSE IF T # {} THEN TextRead(wireBlocks[First(T)].text).doc
                 ELSE IF TextParses(wire.output_text) THEN TextRead(wire.output_text).doc
                 ELSE DocNull

\* a text block that parses stands before a block carrying another object,
\* and the object was returned
C11_Witness ==
  /\ wire # NoWire
  /\ \E i, j \in DOMAIN wireBlocks :
       /\ i < j
       /\ HoldsJsonText(wireBlocks[i])
       /\ CarriesObject(wireBlocks[j])
       /\ TextRead(wireBlocks[i].text).doc # wireBlocks[j].json
       /\ result = wireBlocks[j].json

\* no shape of the argument holds JSON
NoShapeHoldsJson ==
  /\ \A i \in DOMAIN wireBlocks :
       ~CarriesObject(wireBlocks[i]) /\ ~HoldsJsonText(wireBlocks[i])
  /\ ~TextParses(wire.output_text)

\* C12: for every object payload p, the response carrying p in a structured
\* block, the one carrying JSON.stringify(p) in a text block and the one
\* carrying it as output_text all make extractStructuredJson return p; a
\* response none of whose shapes holds JSON makes it return null.
C12_ShapesAgree ==
  /\ \A p \in WirePayloads :
       wire \in {WireJsonBlock(p), WireTextBlock(p), WireOutputText(p)} => result = DocObj(p)
  /\ (wire # NoWire /\ NoShapeHoldsJson) => result = DocNull

\* the payload with four fields came back from its serialized text block
C12_Witness == wire = WireTextBlock(PayloadB) /\ result = DocObj(PayloadB)

\* C13: what extractStructuredJson returns is an object or null, and a 200
\* record is built only from an extracted object.
C13_ObjectOrNull ==
  /\ (genSt = "settled" /\ genRes.net = "ok" /\ genRes.raw.wf)
       => extractStructuredJson(genRes.raw.data).k \in {"obj", "arr", "null"}
  /\ ReturnedRecord => extracted.k \in {"obj", "arr"}

\* --- the order in which the tasks complete ---

\* the steps of order taken before its i-th
Before(i) == { order[j] : j \in 1..(i - 1) }

\* the value of the years chain, read off the responses it received
ChainYears ==
  IF qidSt = "settled" /\ Truthy(wikipediaQidForTitle(qidRes)) /\ factsSt = "settled"
    THEN wikidataYearsForQid(factsRes)
    ELSE NoYears

\* the value of the summary lookup, read off the response it received
SummaryUrl == IF wikiSt = "settled" THEN wikipediaUrlForTitle(wikiRes) ELSE Null

\* C14: the record returned is the one built from the request, the
\* generator's response, the summary lookup's response and the responses of
\* the years chain, in whatever order these arrived.
C14_RecordIsFunctionOfResults ==
  ReturnedRecord =>
    rec = BuildRecord(extractStructuredJson(genRes.raw.data), RequestType(event.body),
                      RequestTitle(event.body), SummaryUrl, ChainYears)

\* the years chain finished first and the summary lookup last, after the
\* generator, and the record carries the chain's years and the lookup's page
C14_Witness ==
  /\ ReturnedRecord
  /\ order = <<"invoke", "qid", "facts", "generator", "wiki", "merge">>
  /\ ~years.nil
  /\ years.birthYear.k = "num"
  /\ rec["birthYear"] = years.birthYear
  /\ wikiUrl = Str(WikiPage)
  /\ rec["href"] = Str(WikiPage)

\* C15: a 200 response is returned only when the generator call, the summary
\* lookup and the years chain have all settled: the merge is the last step,
\* taken after the settling of every task that was launched.
C15_MergeAfterAllSettled ==
  /\ response.statusCode = 200 =>
       /\ genSt = "settled"
       /\ wikiSt = "settled"
       /\ yearsSt = "settled"
       /\ qidSt # "pending"
       /\ factsSt # "pending"
  /\ \A i \in DOMAIN order :
       order[i] = "merge" =>
         /\ i = Len(order)
         /\ {"generator", "wiki"} \subseteq Before(i)
         /\ RunsYearsChain(type) => "qid" \in Before(i)
         /\ Truthy(qid) => "facts" \in Before(i)

\* the generator answered while the lookups were pending, and the record
\* was returned only after the chain, the last to finish, had settled
C15_Witness ==
  /\ ReturnedRecord
  /\ order = <<"invoke", "generator", "wiki", "qid", "facts", "merge">>

\* C16: the EntityData request is sent only after the pageprops lookup has
\* returned a QID; when that lookup returns null no EntityData request is
\* sent and the chain resolves to null; and each step of the chain can be
\* taken whenever it is pending, whatever the state of the summary lookup
\* and of the generator call.
C16_FactsOnlyAfterQid ==
  /\ factsSt # "idle" => (qidSt = "settled" /\ qid.k = "str" /\ qid.s # <<>>)
  /\ (qidSt = "settled" /\ qid = Null) =>
       (factsSt = "idle" /\ yearsSt = "settled" /\ years = NoYears)
  /\ \A i \in DOMAIN order : order[i] = "facts" => "qid" \in Before(i)
  /\ qidSt = "pending" => ENABLED (\E r \in QidResponses : QidSettle(r))
  /\ factsSt = "pending" => ENABLED (\E r \in FactsResponses : FactsSettle(r))

\* the chain ran to its end while the summary lookup and the generator call
\* were both still pending
C16_Witness ==
  /\ order = <<"invoke", "qid", "facts">>
  /\ factsSt = "settled"
  /\ ~years.nil
  /\ wikiSt = "pending"
  /\ genSt = "pending"

\* C17: once the handler has returned, its response never changes; the
\* step that ends the wait for the lookups returns a 200 record, never a
\* failure; and when the lookups have settled that step is the only one left.
C17_EndStatesAreTerminal ==
  [][ /\ pc = "done" => (pc' = "done" /\ response' = response)
      /\ (pc = "awaitAll" /\ pc' # "awaitAll") =>
           (pc' = "done" /\ response'.statusCode = 200 /\ response'.ctype = "json")
      /\ (pc = "awaitAll" /\ wikiSt = "settled" /\ yearsSt = "settled") =>
           (pc' = "done" /\ response'.statusCode = 200) ]_vars

\* --- the failure message, the tags, disambiguation pages ---

\* C18: when the generator answers with a non-2xx status, the failure
\* returned quotes that status and the raw body of the answer.
C18_FailureQuotesStatusAndBody ==
  (genSt = "settled" /\ genRes.net = "ok" /\ ~ResOk(genRes)) =>
    /\ ReturnedFailure
    /\ response.error = "OpenAI error"
    /\ response.upstream = genRes.status
    /\ response.raw = genRes.raw

\* the generator answered 429 and the failure quotes 429 and its body
C18_Witness ==
  /\ ReturnedFailure
  /\ genRes.status = 429
  /\ genRes.raw = RateLimitRaw
  /\ response.upstream = 429
  /\ response.raw = RateLimitRaw

\* the strings of an array of strings
TagStrings(v) == [i \in 1..Len(v.a) |-> v.a[i].s]

\* C19: normalizing the tags of a returned record again leaves them as
\* they are.
C19_TagNormalizationIdempotent ==
  ReturnedRecord => NormalizeTags(rec["tags"]) = TagStrings(rec["tags"])

\* the generator's three spellings of one tag were cleaned into one and a
\* pad tag added; normalizing that list again changes nothing
C19_Witness ==
  /\ ReturnedRecord
  /\ Get(generated, "tags").k = "arr"
  /\ Len(Get(generated, "tags").a) = 3
  /\ Len(rec["tags"].a) = 2
  /\ rec["tags"].a[2] = Str(PadTags[1])
  /\ NormalizeTags(rec["tags"]) = TagStrings(rec["tags"])

\* the summary endpoint answered 200 with a disambiguation page
Disambiguation ==
  /\ wikiSt = "settled"
  /\ wikiRes.net = "ok"
  /\ wikiRes.ok
  /\ wikiRes.wf
  /\ wikiRes.type = "disambiguation"

\* C20: when the summary endpoint answers with a disambiguation page, the
\* resolver returns null whatever page URL the answer carries, and the href
\* of the record is the sentinel, not that URL.
C20_DisambiguationYieldsSentinel ==
  Disambiguation =>
    /\ wikiUrl = Null
    /\ ReturnedRecord => (rec["href"] = Str(NoWikiText) /\ rec["href"] # wikiRes.page)

\* the disambiguation answer carried a page URL and the record has the sentinel
C20_Witness ==
  /\ Disambiguation
  /\ wikiRes.page = Str(DisambigPage)
  /\ ReturnedRecord
  /\ rec["href"] = Str(NoWikiText)

\* ------------------------------------------------------------------------
\* Years without a bundle, validation, the type gate
\* ------------------------------------------------------------------------

\* the person request ended with a record and without a bundle of facts
PersonWithoutBundle == ReturnedRecord /\ type = PersonText /\ years.nil

\* C21: for a person request for which no bundle of facts is obtained (the
\* cross-reference id is null, or the structured-facts lookup fails), the
\* birthYear and deathYear of the record are exactly the values the generator
\* returned, and absent when the generator returned none.
C21_NoBundleKeepsGeneratedYears ==
  PersonWithoutBundle =>
    /\ Get(rec, "birthYear") = Get(generated, "birthYear")
    /\ Get(rec, "deathYear") = Get(generated, "deathYear")
    /\ ("birthYear" \in DOMAIN rec) = ("birthYear" \in DOMAIN generated)
    /\ ("deathYear" \in DOMAIN rec) = ("deathYear" \in DOMAIN generated)

\* the structured-facts lookup failed; the generator gave a birth year and no
\* death year, and the record has that birth year and no death year
C21_Witness ==
  /\ PersonWithoutBundle
  /\ factsSt = "settled"
  /\ LookupFailed(factsRes)
  /\ Get(rec, "birthYear") = Num(1900)
  /\ "deathYear" \notin DOMAIN rec

\* the request is one of those validation rejects: a preflight, a method other
\* than POST, no API key, a body that is not JSON, a title that is empty or
\* only whitespace
Rejectable(ev) ==
  \/ ev.httpMethod # "POST"
  \/ ~ev.hasKey
  \/ ~ev.body.wf
  \/ ~Truthy(ev.body.title)
  \/ \A i \in DOMAIN JsString(ev.body.title) : IsSpace(JsString(ev.body.title)[i])

\* some outbound request of the invocation has been sent
Launched == genSt # "idle" \/ wikiSt # "idle" \/ qidSt # "idle" \/ factsSt # "idle"

\* C27: a request rejected during validation (OPTIONS, non-POST, missing API
\* key, invalid JSON body, empty or whitespace-only title) is answered without
\* any outbound call: no generator or resolver request has been launched for
\* it, and it is answered in the step that received it.
C27_RejectedLaunchesNothing ==
  (event # NoEvent /\ Rejectable(event)) =>
    /\ ~Launched
    /\ pc = "done"
    /\ response.statusCode \in {204, 400, 405, 500}
    /\ response.obj = EmptyObj

\* a whitespace-only title was answered 400 with nothing launched
C27_Witness ==
  /\ pc = "done"
  /\ event.httpMethod = "POST"
  /\ event.hasKey
  /\ event.body.wf
  /\ event.body.title = Str(<<" ", "\t">>)
  /\ response.statusCode = 400
  /\ ~Launched

\* the request passed validation and its tasks were launched
Dispatched == event # NoEvent /\ ~Rejectable(event)

C22_SettlingInvocationReturns ==
  /\ Dispatched ~> (ReturnedRecord \/ ReturnedFailure)
  /\ [](Dispatched /\ genSt = "settled" /\ GeneratorFailed(genRes) => ReturnedFailure)
  /\ [][Resumes => MergeAndReturn]_vars

\* the failure was returned while the summary lookup and the QID lookup were
\* still pending
C22_Witness ==
  /\ ReturnedFailure
  /\ genSt = "settled"
  /\ GeneratorFailed(genRes)
  /\ wikiSt = "pending"
  /\ qidSt = "pending"

\* --- two invocations interleaved ---

\* the response an invocation returns when it runs alone with the request of
\* scope s and the upstream responses s received
Solo(s) ==
  LET ti == RequestTitle(s.event.body)
      ty == RequestType(s.event.body)
      doc == extractStructuredJson(s.genRes.raw.data)
      url == wikipediaUrlForTitle(s.wikiRes)
      yrs == IF RunsYearsChain(ty) /\ Truthy(wikipediaQidForTitle(s.qidRes))
               THEN wikidataYearsForQid(s.factsRes)
               ELSE NoYears
  IN  IF Validate(s.event) # NoResponse THEN Validate(s.event)
      ELSE IF GeneratorFailure(s.genRes) # NoResponse THEN GeneratorFailure(s.genRes)
      ELSE IF MergeThrows(Spread(doc)) THEN text(500, "Function error", 0)
      ELSE json(200, BuildRecord(doc, ty, ti, url, yrs))

\* C23: when two invocations run interleaved on one event loop, each returns
\* the response it would return alone with the same request and the same
\* upstream responses; a step of one invocation leaves every variable of the
\* other as it was, and the event loop's switch changes neither scope.
C23_InvocationsIndependent ==
  /\ [](\A s \in {Scope, other} : s.pc = "done" => s.response = Solo(s))
  /\ [][ /\ cur' = cur => other' = other
         /\ cur' # cur => (other' = Scope /\ Scope' = other) ]_vars

\* both invocations have returned a record, for different titles and types,
\* the second having been dispatched while the first awaited its generator
C23_Witness ==
  /\ pc = "done"
  /\ other.pc = "done"
  /\ response.statusCode = 200
  /\ other.response.statusCode = 200
  /\ type = PersonText
  /\ other.type = BookText
  /\ response.obj["title"] # other.response.obj["title"]
  /\ ~years.nil
  /\ wikiUrl # other.wikiUrl

\* --- items.js: the token, create, delete ---

\* a step in which the handler of items.js answers a request
ItemsStep == adminToken' = adminToken /\ itemsReq'.httpMethod # "none"

\* the value of the request's x-admin-token header, in either spelling
Presented(r) == IF r.headers.lower # Absent THEN r.headers.lower ELSE r.headers.capital

\* a string with a character that is not white space
NonBlank(v) == v.k = "str" /\ \E i \in DOMAIN v.s : ~IsSpace(v.s[i])

\* every blob of the store is still there, as it was
NothingTouched == \A k \in DOMAIN store : k \in DOMAIN store' /\ store'[k] = store[k]

BodyField(r, f) ==
  IF r.body.k = "json" /\ r.body.doc.k = "obj" THEN Get(r.body.doc.o, f) ELSE Absent

\* C25: a POST never modifies or removes a stored item.  Answered 200, it
\* has added exactly one item, under the key items/<id>.json that was not in
\* the store, whose id and createdAt are the server's and not the client's,
\* and the body had non-empty type, title and href; a POST that passes the
\* token test without those three is answered 400, and every POST not
\* answered 200 leaves the store as it is.
C25_CreateAppendsOneItem ==
  [][ (ItemsStep /\ itemsReq'.httpMethod = "POST") =>
        LET r == itemsReq'
            key == ItemKey(itemsRes'.id)
            complete == NonBlank(BodyField(r, "type")) /\ NonBlank(BodyField(r, "title"))
                          /\ NonBlank(BodyField(r, "href"))
        IN  /\ NothingTouched
            /\ itemsRes'.statusCode = 200 =>
                 /\ complete
                 /\ key \notin DOMAIN store
                 /\ DOMAIN store' = (DOMAIN store) \cup {key}
                 /\ store'[key]["id"] = Str(itemsRes'.id)
                 /\ itemsRes'.id = Uuid(issued')
                 /\ store'[key]["createdAt"] = Str(IsoTime(issued'))
                 /\ \A f \in {"type", "title", "href"} : store'[key][f] = BodyField(r, f)
            /\ itemsRes'.statusCode # 200 => store' = store
            /\ (itemsRes'.statusCode # 401 /\ ~complete) => itemsRes'.statusCode = 400 ]_vars

\* the second item published brought an id and a createdAt of its own and is
\* stored under the server's id, next to the first
C25_Witness ==
  /\ itemsReq.httpMethod = "POST"
  /\ BodyField(itemsReq, "id") = Str(<<"z">>)
  /\ itemsRes.statusCode = 200
  /\ itemsRes.id = Uuid(2)
  /\ DOMAIN store = {ItemKey(Uuid(1)), ItemKey(Uuid(2))}
  /\ store[ItemKey(Uuid(2))]["id"] = Str(Uuid(2))
  /\ store[ItemKey(Uuid(2))]["createdAt"] = Str(IsoTime(2))
  /\ store[ItemKey(Uuid(2))]["tags"] = Arr(<<Str(<<"a">>), Str(<<"7">>)>>)

\* C26: a DELETE that passes the token test removes at most the item it
\* names and leaves the others as they are: the key parameter when it is a
\* non-empty string, whatever the id says; else items/<id>.json for a
\* non-empty id; with neither it is answered 400 and the store stays as it
\* is.  Naming an item that is not stored is answered ok all the same.
C26_DeleteRemovesTheNamedItem ==
  [][ (ItemsStep /\ itemsReq'.httpMethod = "DELETE" /\ itemsRes'.statusCode # 401) =>
        LET r == itemsReq'
            named == IF NonBlank(r.key) THEN {r.key.s}
                     ELSE IF NonBlank(r.id) THEN {ItemKey(r.id.s)}
                     ELSE {}
        IN  /\ DOMAIN store' = (DOMAIN store) \ named
            /\ \A k \in DOMAIN store' : store'[k] = store[k]
            /\ named = {} => (itemsRes'.statusCode = 400 /\ store' = store)
            /\ named # {} => (itemsRes'.statusCode = 200 /\ itemsRes'.ok) ]_vars

\* a DELETE named a key that is not stored and the id of a stored item: it
\* was answered ok and both stored items are still there
C26_Witness ==
  /\ itemsReq.httpMethod = "DELETE"
  /\ itemsReq.key = Str(ItemKey(<<"z">>))
  /\ itemsReq.id = Str(Uuid(1))
  /\ itemsRes.statusCode = 200
  /\ itemsRes.ok
  /\ DOMAIN store = {ItemKey(Uuid(1)), ItemKey(Uuid(2))}

\* --- editor.js: the suggestion cache, the autofill button ---

\* C29: whenever no suggestion request is in flight, the cached suggestions
\* are those returned for lastSuggestQuery, the query typed last, or are
\* empty (after an error, or after the reset that follows a publish or a
\* delete): the answer to an older query never replaces the newer results.
C29_CacheMatchesLastQuery ==
  inflight = {} =>
    latestBookSuggestions \in {SuggestionsFor(lastSuggestQuery), <<>>}

\* a run of autofillFromAI has ended after it disabled the button
RanAndEnded ==
  afPc = "finished" /\ afPath \in {"networkError", "readError", "httpError", "invalid", "threw", "filled"}

\* C30: when a run of autofillFromAI that disabled the autofill button has
\* ended (by a return, or by a throw that the click listener catches), the
\* button is enabled again, on every path; the button is disabled only
\* while a run awaits its fetch or its body.
C30_ButtonReenabled ==
  /\ RanAndEnded => ~disabled
  /\ disabled => afPc \in {"fetch", "read"}
  /\ afPc \in {"fetch", "read"} => disabled

\* reading the body of the response failed: autofillFromAI threw, the click
\* listener caught it, and the button is enabled
C30_Witness ==
  /\ afPc = "finished"
  /\ afPath = "readError"
  /\ afRes
  /\ ~disabled

====
